---------------------------- MODULE Spec2Model ----------------------------
(***************************************************************************)
(* Portfolio ledger and accounting engine of the trading simulator         *)
(* (src/App.tsx, second component starting at line 1189, together with     *)
(* src/components/TradeForm.tsx and the types of src/unnamed/part_000).    *)
(*                                                                         *)
(* JavaScript numbers are modelled as exact rationals.  A number is the    *)
(* triple <<w, n, d>> standing for w + n/d with 0 <= n < d, gcd(n,d) = 1   *)
(* and d = 1 when n = 0, so that equal numbers are equal values.  The      *)
(* whole part is kept apart from the fraction so that an account balance   *)
(* carrying a micro-unit fraction stays inside the integer range.          *)
(***************************************************************************)
EXTENDS Integers, Sequences, FiniteSets, TLC

(***************************************************************************)
(* Number arithmetic (JS +, -, *, /, <, <=, Math.max, toFixed(6))          *)
(***************************************************************************)
Abs(k) == IF k < 0 THEN -k ELSE k

RECURSIVE GCD(_, _)
GCD(a, b) == IF b = 0 THEN a ELSE GCD(b, a % b)

\* the number n/d for integers n and d > 0
Frac(n, d) ==
  LET g  == GCD(Abs(n), d)
      nn == n \div g
      dd == d \div g
  IN  <<nn \div dd, nn % dd, dd>>

Num(k) == <<k, 0, 1>>

Numer(x) == x[1] * x[3] + x[2]

Add(x, y) ==
  LET g == GCD(x[3], y[3])
      l == (x[3] \div g) * y[3]
      f == x[2] * (l \div x[3]) + y[2] * (l \div y[3])
      r == Frac(f, l)
  IN  <<x[1] + y[1] + r[1], r[2], r[3]>>

Neg(x) == IF x[2] = 0 THEN <<-x[1], 0, 1>> ELSE <<-x[1] - 1, x[3] - x[2], x[3]>>

Sub(x, y) == Add(x, Neg(y))

Mul(x, y) ==
  LET a  == Numer(x)
      c  == Numer(y)
      g1 == GCD(Abs(a), y[3])
      g2 == GCD(Abs(c), x[3])
  IN  Frac((a \div g1) * (c \div g2), (x[3] \div g2) * (y[3] \div g1))

\* x / y for y # 0
Div(x, y) ==
  LET c == Numer(y)
      r == IF c < 0 THEN Frac(-y[3], -c) ELSE Frac(y[3], c)
  IN  Mul(x, r)

Less(x, y) ==
  \/ x[1] < y[1]
  \/ x[1] = y[1] /\ x[2] * y[3] < y[2] * x[3]

Leq(x, y) == x = y \/ Less(x, y)

Max(x, y) == IF Less(x, y) THEN y ELSE x

\* the amount threshold 0.000001 below which a holding counts as closed
EPSILON == Frac(1, 1000000)

\* Number.prototype.toFixed(6) followed by parseFloat: the nearest multiple
\* of 10^-6, halves rounded up (arguments here are positive)
ToFixed6(x) ==
  LET k == (2 * x[2] * 1000000 + x[3]) \div (2 * x[3])
  IN  Add(Num(x[1]), Frac(k, 1000000))

(***************************************************************************)
(* Bounds and input sets                                                   *)
(***************************************************************************)
\* number of user operations explored; the wall clock (Date.now()) advances
\* by one reading per operation
MaxClock == 4

\* cash of the snapshot that loadData installed
LoadedCash == 1000000

\* amounts typed into the deposit / withdrawal dialog (0 is the empty field)
DepositAmounts == {0, -999500}

\* prices typed into the price cell of the asset table
EditedPrices == {250}

\* allocations typed into the add-portfolio dialog
NewAllocations == {50000000}

\* names typed into the new-portfolio modal (the empty field included)
PortfolioNames == {"new", ""}

(***************************************************************************)
(* Data model (types of src/unnamed/part_000)                              *)
(***************************************************************************)
ALL_PORTFOLIOS_ID == "ALL_ROOT"

\* the null of selectedPortfolioId and of the add dialog's parentId
NULL == "null"

tetherPrice == 60000

INITIAL_STATE ==
  [ cash |-> Num(1000000000),
    rootPortfolios |->
      << [ id |-> "p-1", name |-> "bourse", allocation |-> Num(300000000),
           assets |-> <<>>,
           children |->
             << [ id |-> "p-1-1", name |-> "funds", allocation |-> Num(100000000),
                  assets |-> <<>>, children |-> <<>> ] >> ],
         [ id |-> "p-2", name |-> "gold", allocation |-> Num(200000000),
           assets |-> <<>>, children |-> <<>> ] >>,
    tradeHistory |-> <<>>,
    netWorthHistory |-> << [date |-> 0, value |-> Num(1000000000)] >>,
    selectedPortfolioId |-> "p-1" ]

(***************************************************************************)
(* Helper functions for the nested state                                   *)
(***************************************************************************)
\* Portfolio | null is the sequence <<p>> | <<>>
RECURSIVE findPortfolioRecursive(_, _)
findPortfolioRecursive(portfolios, id) ==
  IF portfolios = <<>> THEN <<>>
  ELSE LET p == Head(portfolios)
       IN  IF p.id = id THEN <<p>>
           ELSE LET found == findPortfolioRecursive(p.children, id)
                IN  IF found # <<>> THEN found
                    ELSE findPortfolioRecursive(Tail(portfolios), id)

RECURSIVE updatePortfolioRecursive(_, _)
updatePortfolioRecursive(portfolios, updated) ==
  [ i \in 1..Len(portfolios) |->
      LET p == portfolios[i]
      IN  IF p.id = updated.id THEN updated
          ELSE IF Len(p.children) > 0
               THEN [p EXCEPT !.children = updatePortfolioRecursive(p.children, updated)]
               ELSE p ]

RECURSIVE addPortfolioRecursive(_, _, _)
addPortfolioRecursive(portfolios, parentId, newPortfolio) ==
  [ i \in 1..Len(portfolios) |->
      LET p == portfolios[i]
      IN  IF p.id = parentId THEN [p EXCEPT !.children = Append(p.children, newPortfolio)]
          ELSE IF Len(p.children) > 0
               THEN [p EXCEPT !.children = addPortfolioRecursive(p.children, parentId, newPortfolio)]
               ELSE p ]

RECURSIVE deletePortfolioRecursive(_, _)
deletePortfolioRecursive(portfolios, id) ==
  LET kept == SelectSeq(portfolios, LAMBDA p : p.id # id)
  IN  [ i \in 1..Len(kept) |->
          [kept[i] EXCEPT !.children = deletePortfolioRecursive(kept[i].children, id)] ]

RECURSIVE assetsValue(_)
assetsValue(assets) ==
  IF assets = <<>> THEN Num(0)
  ELSE Add(Mul(Head(assets).amount, Head(assets).currentPrice), assetsValue(Tail(assets)))

RECURSIVE calculatePortfolioTotal(_)
RECURSIVE totalAssets(_)
calculatePortfolioTotal(p) == Add(assetsValue(p.assets), totalAssets(p.children))

\* portfolios.reduce((sum, p) => sum + calculatePortfolioTotal(p), 0)
totalAssets(portfolios) ==
  IF portfolios = <<>> THEN Num(0)
  ELSE Add(calculatePortfolioTotal(Head(portfolios)), totalAssets(Tail(portfolios)))

RECURSIVE flattenPortfolios(_)
flattenPortfolios(portfolios) ==
  IF portfolios = <<>> THEN <<>>
  ELSE <<Head(portfolios)>> \o flattenPortfolios(Head(portfolios).children)
         \o flattenPortfolios(Tail(portfolios))

recordHistory(history, newValue, now) ==
  Append(history, [date |-> now, value |-> newValue])


\* rendering of an epoch-millisecond reading inside a generated id
TimeString(now) == "t" \o ToString(now)

(***************************************************************************)
(* Trade form (src/components/TradeForm.tsx)                               *)
(*                                                                         *)
(* A filled form is [type, assetName, price, lastEdited, typed, feeType,   *)
(* feeValue, currency]: typed is the amount when the amount field was      *)
(* edited last and the total when the total field was edited last; the     *)
(* auto-calculation effect derives the other one.                          *)
(***************************************************************************)
formAmount(f) ==
  IF f.lastEdited = "total" THEN ToFixed6(Div(f.typed, f.price)) ELSE f.typed

formTotal(f) ==
  IF f.lastEdited = "total" THEN f.typed ELSE Mul(f.price, f.typed)

currencyRate(f) == IF f.currency = "tether" THEN Num(tetherPrice) ELSE Num(1)

getPriceInToman(f) == Mul(f.price, currencyRate(f))

calculateFee(f) ==
  LET totalToman == Mul(formTotal(f), currencyRate(f))
  IN  IF f.feeType = "percentage" THEN Mul(totalToman, Div(f.feeValue, Num(100)))
      ELSE f.feeValue

\* index of the first asset with that name, 0 when there is none (JS -1)
findAssetIndex(assets, name) ==
  IF \E i \in 1..Len(assets) : assets[i].name = name
  THEN CHOOSE i \in 1..Len(assets) :
         /\ assets[i].name = name
         /\ \A j \in 1..(i - 1) : assets[j].name # name
  ELSE 0

\* validation that forgets the cash check of a buy
submitAcceptsNoCashCheck(f, portfolio, cashBalance) ==
  /\ portfolio # <<>>
  /\ ~ ( /\ f.type = "sell"
         /\ LET i == findAssetIndex(portfolio[1].assets, f.assetName)
            IN  \/ i = 0
                \/ Less(portfolio[1].assets[i].amount, formAmount(f)) )

\* the validation of handleSubmit: TRUE when the form is handed to onTrade
submitAccepts(f, portfolio, cashBalance) ==
  /\ portfolio # <<>>
  /\ ~ ( /\ f.type = "buy"
         /\ Less(cashBalance, Add(Mul(formTotal(f), currencyRate(f)), calculateFee(f))) )
  /\ ~ ( /\ f.type = "sell"
         /\ LET i == findAssetIndex(portfolio[1].assets, f.assetName)
            IN  \/ i = 0
                \/ Less(portfolio[1].assets[i].amount, formAmount(f)) )

\* the tradeData object handed to onTrade
submitTradeData(f) ==
  [ type       |-> f.type,
    assetName  |-> f.assetName,
    price      |-> getPriceInToman(f),
    amount     |-> formAmount(f),
    totalValue |-> Mul(formTotal(f), currencyRate(f)),
    fee        |-> calculateFee(f) ]


(***************************************************************************)
(* Trade executor (handleTrade).  Every handler is a function of the       *)
(* rendered snapshot its closure captured (rendered) and of the state the  *)
(* setState updater receives (prev).                                       *)
(***************************************************************************)
removeAt(seq, i) == [ j \in 1..(Len(seq) - 1) |-> IF j < i THEN seq[j] ELSE seq[j + 1] ]

\* buy branch that takes the latest trade price as the average
buyAssetsLatestPrice(assets, tradeData, now) ==
  LET existingAssetIndex == findAssetIndex(assets, tradeData.assetName)
  IN  IF existingAssetIndex > 0
      THEN LET asset == assets[existingAssetIndex]
           IN  [assets EXCEPT ![existingAssetIndex] =
                  [asset EXCEPT !.amount       = Add(asset.amount, tradeData.amount),
                                !.avgBuyPrice  = tradeData.price,
                                !.currentPrice = tradeData.price]]
      ELSE Append(assets,
                  [ id           |-> "ast-" \o TimeString(now),
                    name         |-> tradeData.assetName,
                    symbol       |-> tradeData.assetName,
                    amount       |-> tradeData.amount,
                    avgBuyPrice  |-> tradeData.price,
                    currentPrice |-> tradeData.price ])

\* updatedAssets of the buy branch
buyAssets(assets, tradeData, now) ==
  LET existingAssetIndex == findAssetIndex(assets, tradeData.assetName)
  IN  IF existingAssetIndex > 0
      THEN LET asset        == assets[existingAssetIndex]
               newAmount    == Add(asset.amount, tradeData.amount)
               oldTotalCost == Mul(asset.amount, asset.avgBuyPrice)
               newTotalCost == Add(oldTotalCost, tradeData.totalValue)
           IN  [assets EXCEPT ![existingAssetIndex] =
                  [asset EXCEPT !.amount       = newAmount,
                                !.avgBuyPrice  = Div(newTotalCost, newAmount),
                                !.currentPrice = tradeData.price]]
      ELSE Append(assets,
                  [ id           |-> "ast-" \o TimeString(now),
                    name         |-> tradeData.assetName,
                    symbol       |-> tradeData.assetName,
                    amount       |-> tradeData.amount,
                    avgBuyPrice  |-> tradeData.price,
                    currentPrice |-> tradeData.price ])

\* realizedPnl of the sell branch, for the asset at existingAssetIndex
sellRealizedPnl(asset, tradeData) ==
  Mul(Sub(tradeData.price, asset.avgBuyPrice), tradeData.amount)

\* sell branch that removes the asset only when nothing at all remains
sellAssetsExactZero(assets, existingAssetIndex, tradeData) ==
  LET asset     == assets[existingAssetIndex]
      newAmount == Sub(asset.amount, tradeData.amount)
  IN  IF Leq(newAmount, Num(0))
      THEN removeAt(assets, existingAssetIndex)
      ELSE [assets EXCEPT ![existingAssetIndex] =
              [asset EXCEPT !.amount = newAmount, !.currentPrice = tradeData.price]]

\* updatedAssets of the sell branch, for existingAssetIndex > 0
sellAssets(assets, existingAssetIndex, tradeData) ==
  LET asset     == assets[existingAssetIndex]
      newAmount == Sub(asset.amount, tradeData.amount)
  IN  IF Leq(newAmount, EPSILON)
      THEN removeAt(assets, existingAssetIndex)
      ELSE [assets EXCEPT ![existingAssetIndex] =
              [asset EXCEPT !.amount = newAmount, !.currentPrice = tradeData.price]]

\* propagation that credits the target portfolio only
RECURSIVE updatePortfoliosTargetOnly(_, _, _, _)
updatePortfoliosTargetOnly(list, selectedId, updatedAssets, netPnl) ==
  LET step(p) ==
        IF p.id = selectedId
        THEN [ found |-> TRUE,
               p |-> [p EXCEPT !.assets = updatedAssets,
                               !.allocation = Add(p.allocation, netPnl)] ]
        ELSE IF Len(p.children) > 0
             THEN LET childResult ==
                        updatePortfoliosTargetOnly(p.children, selectedId, updatedAssets, netPnl)
                  IN  IF childResult.found
                      THEN [ found |-> TRUE,
                             p |-> [p EXCEPT !.children = childResult.updated] ]
                      ELSE [ found |-> FALSE, p |-> p ]
             ELSE [ found |-> FALSE, p |-> p ]
      res == [ i \in 1..Len(list) |-> step(list[i]) ]
  IN  [ updated |-> [ i \in 1..Len(list) |-> res[i].p ],
        found   |-> \E i \in 1..Len(list) : res[i].found ]

\* returns [updated, found]
RECURSIVE updatePortfoliosWithPnL(_, _, _, _)
updatePortfoliosWithPnL(list, selectedId, updatedAssets, netPnl) ==
  LET step(p) ==
        IF p.id = selectedId
        THEN [ found |-> TRUE,
               p |-> [p EXCEPT !.assets = updatedAssets,
                               !.allocation = Add(p.allocation, netPnl)] ]
        ELSE IF Len(p.children) > 0
             THEN LET childResult ==
                        updatePortfoliosWithPnL(p.children, selectedId, updatedAssets, netPnl)
                  IN  IF childResult.found
                      THEN [ found |-> TRUE,
                             p |-> [p EXCEPT !.children = childResult.updated,
                                             !.allocation = Add(p.allocation, netPnl)] ]
                      ELSE [ found |-> FALSE, p |-> p ]
             ELSE [ found |-> FALSE, p |-> p ]
      res == [ i \in 1..Len(list) |-> step(list[i]) ]
  IN  [ updated |-> [ i \in 1..Len(list) |-> res[i].p ],
        found   |-> \E i \in 1..Len(list) : res[i].found ]

\* the state handleTrade installs (prev itself when it returns early)
handleTrade(rendered, prev, tradeData, now) ==
  IF rendered.selectedPortfolioId = NULL \/ rendered.selectedPortfolioId = ALL_PORTFOLIOS_ID
  THEN prev
  ELSE
  LET found == findPortfolioRecursive(rendered.rootPortfolios, rendered.selectedPortfolioId)
  IN  IF found = <<>> THEN prev
      ELSE
      LET portfolio == found[1]
          newTrade  == [ id          |-> "tr-" \o TimeString(now),
                         portfolioId |-> portfolio.id,
                         timestamp   |-> now,
                         type        |-> tradeData.type,
                         assetName   |-> tradeData.assetName,
                         price       |-> tradeData.price,
                         amount      |-> tradeData.amount,
                         totalValue  |-> tradeData.totalValue,
                         fee         |-> tradeData.fee ]
          existingAssetIndex == findAssetIndex(portfolio.assets, tradeData.assetName)
      IN  IF tradeData.type = "buy"
          THEN LET updatedAssets == buyAssets(portfolio.assets, tradeData, now)
                   newCash == Sub(prev.cash, Add(tradeData.totalValue, tradeData.fee))
                   updatedPortfolios ==
                     updatePortfolioRecursive(prev.rootPortfolios,
                                              [portfolio EXCEPT !.assets = updatedAssets])
                   newNetWorth == Add(newCash, totalAssets(updatedPortfolios))
               IN  [prev EXCEPT !.cash = newCash,
                                !.tradeHistory = <<newTrade>> \o prev.tradeHistory,
                                !.rootPortfolios = updatedPortfolios,
                                !.netWorthHistory =
                                    recordHistory(prev.netWorthHistory, newNetWorth, now)]
          ELSE IF existingAssetIndex > 0
               THEN LET asset == portfolio.assets[existingAssetIndex]
                        realizedPnl == sellRealizedPnl(asset, tradeData)
                        soldTrade == [ id          |-> newTrade.id,
                                       portfolioId |-> newTrade.portfolioId,
                                       timestamp   |-> newTrade.timestamp,
                                       type        |-> newTrade.type,
                                       assetName   |-> newTrade.assetName,
                                       price       |-> newTrade.price,
                                       amount      |-> newTrade.amount,
                                       totalValue  |-> newTrade.totalValue,
                                       fee         |-> newTrade.fee,
                                       realizedPnl |-> realizedPnl ]
                        updatedAssets ==
                          sellAssets(portfolio.assets, existingAssetIndex, tradeData)
                        newCash == Add(prev.cash, Sub(tradeData.totalValue, tradeData.fee))
                        netPnl  == Sub(realizedPnl, tradeData.fee)
                        updatedPortfolios ==
                          updatePortfoliosWithPnL(prev.rootPortfolios,
                                                  rendered.selectedPortfolioId,
                                                  updatedAssets, netPnl).updated
                        newNetWorth == Add(newCash, totalAssets(updatedPortfolios))
                    IN  [prev EXCEPT !.cash = newCash,
                                     !.tradeHistory = <<soldTrade>> \o prev.tradeHistory,
                                     !.rootPortfolios = updatedPortfolios,
                                     !.netWorthHistory =
                                         recordHistory(prev.netWorthHistory, newNetWorth, now)]
               ELSE prev


(***************************************************************************)
(* Replay / undo engine (replayPortfolioAssets, handleDeleteTrade)         *)
(***************************************************************************)
\* Array.prototype.sort by ascending timestamp; the sort is stable
RECURSIVE insertByTimestamp(_, _)
insertByTimestamp(sorted, t) ==
  IF sorted = <<>> THEN <<t>>
  ELSE LET l == sorted[Len(sorted)]
       IN  IF l.timestamp <= t.timestamp THEN Append(sorted, t)
           ELSE Append(insertByTimestamp(SubSeq(sorted, 1, Len(sorted) - 1), t), l)

RECURSIVE sortByTimestamp(_)
sortByTimestamp(trades) ==
  IF trades = <<>> THEN <<>>
  ELSE insertByTimestamp(sortByTimestamp(SubSeq(trades, 1, Len(trades) - 1)),
                         trades[Len(trades)])

\* a replay that keeps an asset whose amount came out as zero
replayStepKeepsEmpty(assetsMap, t) ==
  LET i        == findAssetIndex(assetsMap, t.assetName)
      asset    == IF i > 0 THEN assetsMap[i]
                  ELSE [ id           |-> "ast-replay-" \o t.assetName,
                         name         |-> t.assetName,
                         symbol       |-> t.assetName,
                         amount       |-> Num(0),
                         avgBuyPrice  |-> Num(0),
                         currentPrice |-> t.price ]
      priced   == [asset EXCEPT !.currentPrice = t.price]
      replayed == IF t.type = "buy"
                  THEN LET totalCost == Mul(priced.amount, priced.avgBuyPrice)
                           newCost   == t.totalValue
                           newAmount == Add(priced.amount, t.amount)
                       IN  [priced EXCEPT !.avgBuyPrice = Div(Add(totalCost, newCost), newAmount),
                                          !.amount = newAmount]
                  ELSE [priced EXCEPT !.amount = Max(Num(0), Sub(priced.amount, t.amount))]
  IN  IF Leq(Num(0), replayed.amount)
      THEN IF i > 0 THEN [assetsMap EXCEPT ![i] = replayed] ELSE Append(assetsMap, replayed)
      ELSE IF i > 0 THEN removeAt(assetsMap, i) ELSE assetsMap

\* one iteration of pTrades.forEach; assetsMap is the sequence of the Map's
\* values in insertion order
replayStep(assetsMap, t) ==
  LET i        == findAssetIndex(assetsMap, t.assetName)
      asset    == IF i > 0 THEN assetsMap[i]
                  ELSE [ id           |-> "ast-replay-" \o t.assetName,
                         name         |-> t.assetName,
                         symbol       |-> t.assetName,
                         amount       |-> Num(0),
                         avgBuyPrice  |-> Num(0),
                         currentPrice |-> t.price ]
      priced   == [asset EXCEPT !.currentPrice = t.price]
      replayed == IF t.type = "buy"
                  THEN LET totalCost == Mul(priced.amount, priced.avgBuyPrice)
                           newCost   == t.totalValue
                           newAmount == Add(priced.amount, t.amount)
                       IN  [priced EXCEPT !.avgBuyPrice = Div(Add(totalCost, newCost), newAmount),
                                          !.amount = newAmount]
                  ELSE [priced EXCEPT !.amount = Max(Num(0), Sub(priced.amount, t.amount))]
  IN  IF Less(EPSILON, replayed.amount)
      THEN IF i > 0 THEN [assetsMap EXCEPT ![i] = replayed] ELSE Append(assetsMap, replayed)
      ELSE IF i > 0 THEN removeAt(assetsMap, i) ELSE assetsMap

RECURSIVE replayAll(_, _)
replayAll(assetsMap, pTrades) ==
  IF pTrades = <<>> THEN assetsMap
  ELSE replayAll(replayStep(assetsMap, Head(pTrades)), Tail(pTrades))

replayPortfolioAssets(portfolioId, trades) ==
  LET pTrades == sortByTimestamp(SelectSeq(trades, LAMBDA t : t.portfolioId = portfolioId))
  IN  replayAll(<<>>, pTrades)

\* cashChange of handleDeleteTrade; deletedTrade is Trade | undefined as <<t>> | <<>>
deleteCashChange(deletedTrade) ==
  IF deletedTrade = <<>> THEN Num(0)
  ELSE IF deletedTrade[1].type = "buy"
       THEN Add(deletedTrade[1].totalValue, deletedTrade[1].fee)
       ELSE Neg(Sub(deletedTrade[1].totalValue, deletedTrade[1].fee))

\* finalRoots of handleDeleteTrade: revertPnL is declared for a deleted sell
\* but never applied, so finalRoots stays updatedRootPortfolios
deleteFinalRoots(updatedRootPortfolios, deletedTrade, portfolioId) ==
  updatedRootPortfolios

\* a deletion that replays the ledger with the deleted trade still in it
handleDeleteTradeReplaysAll(rendered, prev, tradeId, portfolioId, now) ==
  LET updatedHistory  == SelectSeq(rendered.tradeHistory, LAMBDA t : t.id # tradeId)
      targetPortfolio == findPortfolioRecursive(rendered.rootPortfolios, portfolioId)
  IN  IF targetPortfolio = <<>> THEN prev
      ELSE
      LET recalculatedAssets == replayPortfolioAssets(portfolioId, rendered.tradeHistory)
          matching     == SelectSeq(rendered.tradeHistory, LAMBDA t : t.id = tradeId)
          deletedTrade == IF matching = <<>> THEN <<>> ELSE <<Head(matching)>>
          cashChange   == deleteCashChange(deletedTrade)
          updatedPortfolio == [targetPortfolio[1] EXCEPT !.assets = recalculatedAssets]
          updatedRootPortfolios ==
            updatePortfolioRecursive(prev.rootPortfolios, updatedPortfolio)
          finalRoots  == deleteFinalRoots(updatedRootPortfolios, deletedTrade, portfolioId)
          newCash     == Add(prev.cash, cashChange)
          newNetWorth == Add(newCash, totalAssets(finalRoots))
      IN  [prev EXCEPT !.cash = newCash,
                       !.tradeHistory = updatedHistory,
                       !.rootPortfolios = finalRoots,
                       !.netWorthHistory =
                           recordHistory(prev.netWorthHistory, newNetWorth, now)]

\* the state handleDeleteTrade installs once the confirm dialog is accepted
handleDeleteTrade(rendered, prev, tradeId, portfolioId, now) ==
  LET updatedHistory  == SelectSeq(rendered.tradeHistory, LAMBDA t : t.id # tradeId)
      targetPortfolio == findPortfolioRecursive(rendered.rootPortfolios, portfolioId)
  IN  IF targetPortfolio = <<>> THEN prev
      ELSE
      LET recalculatedAssets == replayPortfolioAssets(portfolioId, updatedHistory)
          matching     == SelectSeq(rendered.tradeHistory, LAMBDA t : t.id = tradeId)
          deletedTrade == IF matching = <<>> THEN <<>> ELSE <<Head(matching)>>
          cashChange   == deleteCashChange(deletedTrade)
          updatedPortfolio == [targetPortfolio[1] EXCEPT !.assets = recalculatedAssets]
          updatedRootPortfolios ==
            updatePortfolioRecursive(prev.rootPortfolios, updatedPortfolio)
          finalRoots  == deleteFinalRoots(updatedRootPortfolios, deletedTrade, portfolioId)
          newCash     == Add(prev.cash, cashChange)
          newNetWorth == Add(newCash, totalAssets(finalRoots))
      IN  [prev EXCEPT !.cash = newCash,
                       !.tradeHistory = updatedHistory,
                       !.rootPortfolios = finalRoots,
                       !.netWorthHistory =
                           recordHistory(prev.netWorthHistory, newNetWorth, now)]

(***************************************************************************)
(* Remaining handlers                                                      *)
(***************************************************************************)
handleSelectPortfolio(prev, id) == [prev EXCEPT !.selectedPortfolioId = id]

updateStateWithAssetChange(prev, portfolio, updatedAssets, now) ==
  LET updatedPortfolios ==
        updatePortfolioRecursive(prev.rootPortfolios,
                                 [portfolio EXCEPT !.assets = updatedAssets])
      newNetWorth == Add(prev.cash, totalAssets(updatedPortfolios))
  IN  [prev EXCEPT !.rootPortfolios = updatedPortfolios,
                   !.netWorthHistory =
                       recordHistory(prev.netWorthHistory, newNetWorth, now)]

repriced(assets, assetId, newPrice) ==
  [ i \in 1..Len(assets) |->
      IF assets[i].id = assetId THEN [assets[i] EXCEPT !.currentPrice = newPrice]
      ELSE assets[i] ]

handleAssetPriceUpdate(rendered, prev, assetId, newPrice, now) ==
  IF rendered.selectedPortfolioId # NULL /\ rendered.selectedPortfolioId # ALL_PORTFOLIOS_ID
  THEN LET found == findPortfolioRecursive(rendered.rootPortfolios,
                                           rendered.selectedPortfolioId)
       IN  IF found = <<>> THEN prev
           ELSE updateStateWithAssetChange(prev, found[1],
                                           repriced(found[1].assets, assetId, newPrice), now)
  ELSE LET allPorts == flattenPortfolios(rendered.rootPortfolios)
           holders  == SelectSeq(allPorts,
                                 LAMBDA p : \E i \in 1..Len(p.assets) : p.assets[i].id = assetId)
       IN  IF holders = <<>> THEN prev
           ELSE updateStateWithAssetChange(prev, Head(holders),
                                           repriced(Head(holders).assets, assetId, newPrice), now)

handleDeposit(prev, amount, now) ==
  IF amount = Num(0) THEN prev
  ELSE LET newCash     == Add(prev.cash, amount)
           newNetWorth == Add(newCash, totalAssets(prev.rootPortfolios))
       IN  [prev EXCEPT !.cash = newCash,
                        !.netWorthHistory =
                            recordHistory(prev.netWorthHistory, newNetWorth, now)]

RECURSIVE sumAllocations(_)
sumAllocations(portfolios) ==
  IF portfolios = <<>> THEN Num(0)
  ELSE Add(Head(portfolios).allocation, sumAllocations(Tail(portfolios)))

\* a validation that ignores the allocations already handed out
addPortfolioAcceptsAlone(rendered, parentId, allocationAmount) ==
  IF parentId = NULL
  THEN ~ Less(Add(rendered.cash, totalAssets(rendered.rootPortfolios)), allocationAmount)
  ELSE LET parent == findPortfolioRecursive(rendered.rootPortfolios, parentId)
       IN  \/ parent = <<>>
           \/ ~ Less(parent[1].allocation, allocationAmount)

\* the validation of handleAddPortfolio against the rendered snapshot
addPortfolioAccepts(rendered, parentId, allocationAmount) ==
  IF parentId = NULL
  THEN ~ Less(Add(rendered.cash, totalAssets(rendered.rootPortfolios)),
              Add(sumAllocations(rendered.rootPortfolios), allocationAmount))
  ELSE LET parent == findPortfolioRecursive(rendered.rootPortfolios, parentId)
       IN  \/ parent = <<>>
           \/ ~ Less(parent[1].allocation,
                     Add(sumAllocations(parent[1].children), allocationAmount))

handleAddPortfolio(rendered, prev, parentId, name, allocationAmount, now) ==
  IF name = "" \/ ~ addPortfolioAccepts(rendered, parentId, allocationAmount) THEN prev
  ELSE LET newP == [ id |-> "p-" \o TimeString(now), name |-> name,
                     allocation |-> allocationAmount,
                     assets |-> <<>>, children |-> <<>> ]
       IN  IF parentId = NULL
           THEN [prev EXCEPT !.rootPortfolios = Append(prev.rootPortfolios, newP)]
           ELSE [prev EXCEPT !.rootPortfolios =
                                addPortfolioRecursive(prev.rootPortfolios, parentId, newP)]

\* a deletion that clears the selection whatever was selected
handleDeletePortfolioDeselects(prev, id) ==
  [prev EXCEPT !.rootPortfolios = deletePortfolioRecursive(prev.rootPortfolios, id),
               !.selectedPortfolioId = NULL]

handleDeletePortfolio(prev, id) ==
  [prev EXCEPT !.rootPortfolios = deletePortfolioRecursive(prev.rootPortfolios, id),
               !.selectedPortfolioId =
                   IF prev.selectedPortfolioId = id THEN NULL ELSE prev.selectedPortfolioId]


(***************************************************************************)
(* Position reconstruction (processPositions) and the views that offer     *)
(* rows to the user                                                        *)
(***************************************************************************)
\* openMap is the sequence of [key, position] entries in insertion order
openIndex(openMap, key) ==
  IF \E i \in 1..Len(openMap) : openMap[i].key = key
  THEN CHOOSE i \in 1..Len(openMap) : openMap[i].key = key
  ELSE 0

\* one iteration of sortedTrades.forEach over acc = [positions, openMap]
positionStep(acc, trade) ==
  LET key == trade.portfolioId \o "-" \o trade.assetName
      i   == openIndex(acc.openMap, key)
      started == [ id              |-> "pos-" \o trade.id,
                   assetName       |-> trade.assetName,
                   portfolioId     |-> trade.portfolioId,
                   status          |-> "OPEN",
                   totalBuyAmount  |-> Num(0),
                   remainingAmount |-> Num(0),
                   avgBuyPrice     |-> Num(0),
                   totalCost       |-> Num(0),
                   realizedPnl     |-> Num(0),
                   trades          |-> <<>>,
                   startDate       |-> trade.timestamp,
                   lastUpdateDate  |-> trade.timestamp ]
  IN  IF i = 0 /\ trade.type # "buy" THEN acc
      ELSE
      LET position == IF i > 0 THEN acc.openMap[i].position ELSE started
          openMap  == IF i > 0 THEN acc.openMap
                      ELSE Append(acc.openMap, [key |-> key, position |-> started])
          k        == IF i > 0 THEN i ELSE Len(openMap)
          touched  == [position EXCEPT !.trades = Append(position.trades, trade),
                                       !.lastUpdateDate = trade.timestamp]
      IN  IF trade.type = "buy"
          THEN LET newTotalAmount == Add(touched.remainingAmount, trade.amount)
                   currentCost    == Mul(touched.remainingAmount, touched.avgBuyPrice)
                   newBuyValue    == trade.totalValue
                   bought == [touched EXCEPT
                                !.totalCost = Add(touched.totalCost, newBuyValue),
                                !.avgBuyPrice = Div(Add(currentCost, newBuyValue), newTotalAmount),
                                !.remainingAmount = newTotalAmount,
                                !.totalBuyAmount = Add(touched.totalBuyAmount, trade.amount)]
               IN  [acc EXCEPT !.openMap = [openMap EXCEPT ![k].position = bought]]
          ELSE LET sellValue  == trade.totalValue
                   costOfSold == Mul(trade.amount, touched.avgBuyPrice)
                   tradePnl   == Sub(Sub(sellValue, costOfSold), trade.fee)
                   sold == [touched EXCEPT
                              !.realizedPnl = Add(touched.realizedPnl, tradePnl),
                              !.remainingAmount = Sub(touched.remainingAmount, trade.amount)]
               IN  IF Leq(sold.remainingAmount, EPSILON)
                   THEN [ positions |->
                            Append(acc.positions,
                                   [ id              |-> sold.id,
                                     assetName       |-> sold.assetName,
                                     portfolioId     |-> sold.portfolioId,
                                     status          |-> "CLOSED",
                                     totalBuyAmount  |-> sold.totalBuyAmount,
                                     remainingAmount |-> sold.remainingAmount,
                                     avgBuyPrice     |-> sold.avgBuyPrice,
                                     totalCost       |-> sold.totalCost,
                                     realizedPnl     |-> sold.realizedPnl,
                                     trades          |-> sold.trades,
                                     startDate       |-> sold.startDate,
                                     lastUpdateDate  |-> sold.lastUpdateDate,
                                     endDate         |-> trade.timestamp ]),
                          openMap |-> removeAt(openMap, k) ]
                   ELSE [acc EXCEPT !.openMap = [openMap EXCEPT ![k].position = sold]]

RECURSIVE positionFold(_, _)
positionFold(acc, sortedTrades) ==
  IF sortedTrades = <<>> THEN acc
  ELSE positionFold(positionStep(acc, Head(sortedTrades)), Tail(sortedTrades))

\* stable sort, newest startDate first
RECURSIVE insertByStartDesc(_, _)
insertByStartDesc(sorted, p) ==
  IF sorted = <<>> THEN <<p>>
  ELSE LET l == sorted[Len(sorted)]
       IN  IF l.startDate >= p.startDate THEN Append(sorted, p)
           ELSE Append(insertByStartDesc(SubSeq(sorted, 1, Len(sorted) - 1), p), l)

RECURSIVE sortByStartDesc(_)
sortByStartDesc(positions) ==
  IF positions = <<>> THEN <<>>
  ELSE insertByStartDesc(sortByStartDesc(SubSeq(positions, 1, Len(positions) - 1)),
                         positions[Len(positions)])

\* the positions derived from a ledger (durationDays, a display figure
\* computed from the wall clock, is left out)
processPositions(tradeHistory) ==
  LET acc == positionFold([positions |-> <<>>, openMap |-> <<>>],
                          sortByTimestamp(tradeHistory))
  IN  sortByStartDesc(acc.positions
                      \o [ i \in 1..Len(acc.openMap) |-> acc.openMap[i].position ])

RECURSIVE getAllPortfolioIds(_)
RECURSIVE idsOfAll(_)
getAllPortfolioIds(p) == <<p.id>> \o idsOfAll(p.children)

idsOfAll(portfolios) ==
  IF portfolios = <<>> THEN <<>>
  ELSE getAllPortfolioIds(Head(portfolios)) \o idsOfAll(Tail(portfolios))

Range(seq) == { seq[i] : i \in 1..Len(seq) }

\* selectedPortfolio of the render: Portfolio | null as <<p>> | <<>>
selectedPortfolio(st) ==
  IF st.selectedPortfolioId = ALL_PORTFOLIOS_ID THEN <<>>
  ELSE findPortfolioRecursive(st.rootPortfolios, st.selectedPortfolioId)

displayedPositions(st) ==
  LET all == processPositions(st.tradeHistory)
      sel == selectedPortfolio(st)
  IN  IF st.selectedPortfolioId # ALL_PORTFOLIOS_ID /\ sel # <<>>
      THEN SelectSeq(all, LAMBDA p : p.portfolioId \in Range(getAllPortfolioIds(sel[1])))
      ELSE all

\* the trades that carry a delete button in the history tab
deletableTrades(st) ==
  IF st.selectedPortfolioId = NULL THEN {}
  ELSE UNION { Range(p.trades) : p \in Range(displayedPositions(st)) }

\* the assets that carry a price cell in the asset table
editableAssets(st) ==
  IF st.selectedPortfolioId = NULL THEN {}
  ELSE IF st.selectedPortfolioId = ALL_PORTFOLIOS_ID
       THEN UNION { Range(p.assets) : p \in Range(flattenPortfolios(st.rootPortfolios)) }
       ELSE LET sel == selectedPortfolio(st)
            IN  IF sel = <<>> THEN {} ELSE Range(sel[1].assets)


(***************************************************************************)
(* Inputs of the trade form                                                *)
(***************************************************************************)
Form(type, assetName, price, lastEdited, typed, feeType, feeValue, currency) ==
  [ type |-> type, assetName |-> assetName, price |-> price,
    lastEdited |-> lastEdited, typed |-> typed,
    feeType |-> feeType, feeValue |-> feeValue, currency |-> currency ]

FormInputs ==
  { Form("buy",  "X", Num(100), "amount", Num(10), "fixed", Num(10), "toman"),
    Form("buy",  "X", Num(200), "amount", Num(10), "percentage", Num(1), "toman"),
    Form("sell", "X", Num(300), "amount", Num(15), "fixed", Num(15), "toman"),
    \* the total is typed and the amount derived from it: 10 / 3 -> 3.333333
    Form("buy",  "R", Num(3), "total", Num(10), "fixed", Num(0), "toman"),
    \* a holding that a sell of 1 leaves at 0.0000005
    Form("buy",  "E", Num(2), "amount", Frac(10000005, 10000000), "fixed", Num(1), "toman"),
    Form("sell", "E", Num(2), "amount", Num(1), "fixed", Num(1), "toman"),
    \* 1 toman of an asset priced 1,000,000: the derived amount is 0.000001
    Form("buy",  "D", Num(1000000), "total", Num(1), "fixed", Num(0), "toman") }

(***************************************************************************)
(* State machine                                                           *)
(***************************************************************************)
VARIABLES
  state,        \* the AppState held by useState
  clock,        \* the reading of Date.now() the next operation gets
  lastOp,       \* the last user operation
  mutations,    \* number of mutating operations performed since load
  rendered,     \* the state of the last render, which the handlers close over
  session,      \* a user is signed in
  dataLoaded,   \* loadData has finished once
  loading,      \* number of loadData calls awaiting the store's answer
  timer,        \* the pending debounced save: <<state to save>> or <<>>
  remote,       \* state column of the user's user_saves row: <<s>> or <<>>
  local,        \* the traderSimState item of localStorage: <<s>> or <<>>
  lastMutated   \* <<state after the last user mutation>>, <<>> before any

vars == <<state, clock, lastOp, mutations, rendered, session, dataLoaded,
          loading, timer, remote, local, lastMutated>>

\* loadData installed a snapshot without netWorthHistory: the seeded tree
\* with LoadedCash, and the one-point history synthesised for it
LoadedState ==
  LET snapshot == [INITIAL_STATE EXCEPT !.cash = Num(LoadedCash)]
  IN  [snapshot EXCEPT !.netWorthHistory =
         << [ date  |-> 0,
              value |-> Add(snapshot.cash, totalAssets(snapshot.rootPortfolios)) ] >>]

Init ==
  /\ state = LoadedState
  /\ clock = 1
  /\ lastOp = [op |-> "load"]
  /\ mutations = 0
  /\ rendered = LoadedState
  /\ session = TRUE
  /\ dataLoaded = TRUE
  /\ loading = 0
  /\ timer = <<LoadedState>>
  /\ remote = <<LoadedState>>
  /\ local = <<LoadedState>>
  /\ lastMutated = <<>>

\* the render reads state.netWorthHistory.map: without the array it throws
\* and nothing is mounted that could take a user operation
renders(st) == "netWorthHistory" \in DOMAIN st

\* the handlers are reachable when the signed-in view is mounted
mounted == session /\ renders(rendered)

portfolioIds(st) == { p.id : p \in Range(flattenPortfolios(st.rootPortfolios)) }

\* a commit whose effect leaves a pending timeout in place
CommitKeepsPendingTimer(old, newState) ==
  /\ rendered' = newState
  /\ local' = IF newState # old /\ session' /\ dataLoaded' /\ renders(newState)
              THEN <<newState>> ELSE local
  /\ timer' = IF timer # <<>> THEN timer
              ELSE IF session' /\ dataLoaded' /\ renders(newState)
                   THEN <<newState>> ELSE <<>>

\* the render of newState after the render of old, and the save effect run
\* for it: the previous timeout is cleared, and with a session and loaded
\* data the state is written to localStorage and a new timeout is set
Commit(old, newState) ==
  /\ rendered' = newState
  /\ local' = IF newState # old /\ session' /\ dataLoaded' /\ renders(newState)
              THEN <<newState>> ELSE local
  /\ timer' = IF newState = old /\ session' = session /\ dataLoaded' = dataLoaded
              THEN timer
              ELSE IF session' /\ dataLoaded' /\ renders(newState)
                   THEN <<newState>> ELSE <<>>

\* what a user operation leaves alone, and the record of the last mutation
\* made with a session and loaded data
UserStep ==
  /\ UNCHANGED <<session, dataLoaded, loading, remote>>
  /\ lastMutated' = IF state' # state /\ session /\ dataLoaded
                    THEN <<state'>> ELSE lastMutated

SelectPortfolioEvent(id) ==
  /\ mounted
  /\ clock <= MaxClock
  /\ state' = handleSelectPortfolio(state, id)
  /\ clock' = clock + 1
  /\ lastOp' = [op |-> "select"]
  /\ UNCHANGED mutations
  /\ UserStep

SelectPortfolio(id) == SelectPortfolioEvent(id) /\ Commit(state, state')

\* TradeForm.handleSubmit and, when it accepts, App.handleTrade
SubmitTradeEvent(f) ==
  LET accepted == submitAccepts(f, selectedPortfolio(rendered), rendered.cash)
  IN  /\ mounted
      /\ clock <= MaxClock
      /\ state' = IF accepted THEN handleTrade(rendered, state, submitTradeData(f), clock)
                  ELSE state
      /\ clock' = clock + 1
      /\ mutations' = IF accepted THEN mutations + 1 ELSE mutations
      /\ lastOp' = [op |-> "trade", type |-> f.type, accepted |-> accepted]
      /\ UserStep

SubmitTrade(f) == SubmitTradeEvent(f) /\ Commit(state, state')

DeleteTradeEvent(t) ==
  LET applied == findPortfolioRecursive(rendered.rootPortfolios, t.portfolioId) # <<>>
  IN  /\ mounted
      /\ clock <= MaxClock
      /\ state' = handleDeleteTrade(rendered, state, t.id, t.portfolioId, clock)
      /\ clock' = clock + 1
      /\ mutations' = IF applied THEN mutations + 1 ELSE mutations
      /\ lastOp' = [op |-> "deleteTrade", type |-> t.type, accepted |-> applied]
      /\ UserStep

DeleteTrade(t) == DeleteTradeEvent(t) /\ Commit(state, state')

AssetPriceUpdateEvent(assetId, newPrice) ==
  /\ mounted
  /\ clock <= MaxClock
  /\ state' = handleAssetPriceUpdate(rendered, state, assetId, newPrice, clock)
  /\ clock' = clock + 1
  /\ mutations' = mutations + 1
  /\ lastOp' = [op |-> "price"]
  /\ UserStep

AssetPriceUpdate(assetId, newPrice) ==
  AssetPriceUpdateEvent(assetId, newPrice) /\ Commit(state, state')

DepositEvent(amount) ==
  /\ mounted
  /\ clock <= MaxClock
  /\ state' = handleDeposit(state, amount, clock)
  /\ clock' = clock + 1
  /\ mutations' = IF amount # Num(0) THEN mutations + 1 ELSE mutations
  /\ lastOp' = [op |-> "deposit", accepted |-> amount # Num(0)]
  /\ UserStep

Deposit(amount) == DepositEvent(amount) /\ Commit(state, state')

AddPortfolioEvent(parentId, name, allocationAmount) ==
  /\ mounted
  /\ clock <= MaxClock
  /\ state' = handleAddPortfolio(rendered, state, parentId, name, allocationAmount, clock)
  /\ clock' = clock + 1
  /\ lastOp' = [op |-> "addPortfolio",
                accepted |-> name # "" /\ addPortfolioAccepts(rendered, parentId, allocationAmount)]
  /\ UNCHANGED mutations
  /\ UserStep

AddPortfolio(parentId, name, allocationAmount) ==
  AddPortfolioEvent(parentId, name, allocationAmount) /\ Commit(state, state')

DeletePortfolioEvent(id) ==
  /\ mounted
  /\ clock <= MaxClock
  /\ state' = handleDeletePortfolio(state, id)
  /\ clock' = clock + 1
  /\ mutations' = mutations + 1
  /\ lastOp' = [op |-> "deletePortfolio"]
  /\ UserStep

DeletePortfolio(id) == DeletePortfolioEvent(id) /\ Commit(state, state')

Next ==
  \/ \E id \in portfolioIds(state) \cup {ALL_PORTFOLIOS_ID} : SelectPortfolio(id)
  \/ \E f \in FormInputs : SubmitTrade(f)
  \/ \E t \in deletableTrades(state) : DeleteTrade(t)
  \/ \E a \in editableAssets(state), newPrice \in EditedPrices :
        AssetPriceUpdate(a.id, Num(newPrice))
  \/ \E amount \in DepositAmounts : Deposit(Num(amount))
  \/ \E parentId \in portfolioIds(state) \cup {NULL}, name \in PortfolioNames,
        a \in NewAllocations :
        AddPortfolio(parentId, name, Num(a))
  \/ \E id \in portfolioIds(state) : DeletePortfolio(id)

Spec == Init /\ [][Next]_vars

(***************************************************************************)
(* Start-up from a stored snapshot (loadData)                              *)
(***************************************************************************)
\* clock reading at which loadData installs the snapshot
LoadClock == 2

withoutHistory(snapshot) ==
  [ f \in DOMAIN snapshot \ {"netWorthHistory"} |-> snapshot[f] ]

\* the state loadData installs: data is the state column of the user_saves
\* row, saved the parsed traderSimState item, each <<snapshot>> or <<>>; prev
\* is kept when neither exists
loadData(prev, data, saved, now) ==
  IF data # <<>>
  THEN LET loadedState == data[1]
       IN  IF "netWorthHistory" \notin DOMAIN loadedState
           THEN [ f \in DOMAIN loadedState \cup {"netWorthHistory"} |->
                    IF f = "netWorthHistory"
                    THEN << [ date  |-> now,
                              value |-> Add(loadedState.cash,
                                            totalAssets(loadedState.rootPortfolios)) ] >>
                    ELSE loadedState[f] ]
           ELSE loadedState
  ELSE IF saved # <<>> THEN saved[1]
       ELSE prev

\* the state an earlier session reached by submitting form f at clock now
played(st, f, now) == handleTrade(st, st, submitTradeData(f), now)

\* states earlier sessions saved: a holding of 10 X; 10 X bought and sold
\* again; 3.333333 R bought by amount and sold for a typed total of 10, in a
\* tree whose p-1-1 is fully allocated to a sub-portfolio; 10 X bought and
\* sold within one reading of the clock; 10 of an asset named 1-X bought in
\* p-1 and then 10 X bought in its child p-1-1
SavedStates ==
  LET buyX  == Form("buy",  "X", Num(100), "amount", Num(10), "fixed", Num(10), "toman")
      sellX == Form("sell", "X", Num(300), "amount", Num(10), "fixed", Num(15), "toman")
      buyR  == Form("buy",  "R", Num(3), "amount", Frac(3333333, 1000000), "fixed", Num(0), "toman")
      sellR == Form("sell", "R", Num(3), "total", Num(10), "fixed", Num(0), "toman")
      buy1X == Form("buy",  "1-X", Num(100), "amount", Num(10), "fixed", Num(10), "toman")
      split == handleAddPortfolio(LoadedState, LoadedState, "p-1-1", "sub",
                                  Num(100000000), 0)
  IN  UNION { { boughtX, played(boughtX, sellX, 1), played(boughtX, sellX, 0) } :
                boughtX \in { played(loaded, buyX, 0) : loaded \in {LoadedState} } }
        \cup UNION { { played(boughtR, sellR, 1) :
                        boughtR \in { played(tree, buyR, 0) } } : tree \in {split} }
        \cup { played(handleSelectPortfolio(bought1X, "p-1-1"), buyX, 1) :
                 bought1X \in { played(loaded, buy1X, 0) : loaded \in {LoadedState} } }

\* what the stores hold: a state as saved, or one saved without netWorthHistory
StoredSnapshots == SavedStates \cup { withoutHistory(s) : s \in SavedStates }

\* where loadData finds the snapshot: in the user_saves row, in the
\* traderSimState item when there is no row, or nowhere
LoadSources == {"remote", "local", "none"}

LoadInit ==
  \E source \in LoadSources, s \in StoredSnapshots :
    LET data  == IF source = "remote" THEN <<s>> ELSE <<>>
        saved == IF source = "local" THEN <<s>> ELSE <<>>
    IN  /\ state = loadData(INITIAL_STATE, data, saved, LoadClock)
        /\ clock = LoadClock + 1
        /\ lastOp = [ op |-> "load", source |-> source,
                      lacked |-> source # "none" /\ "netWorthHistory" \notin DOMAIN s ]
        /\ mutations = 0
        /\ rendered = state
        /\ session = TRUE
        /\ dataLoaded = TRUE
        /\ loading = 0
        /\ timer = IF renders(state) THEN <<state>> ELSE <<>>
        /\ remote = IF data # <<>> THEN data ELSE saved
        /\ local = IF renders(state) THEN <<state>> ELSE saved
        /\ lastMutated = <<>>

LoadSpec == LoadInit /\ [][Next]_vars

(***************************************************************************)
(* Handlers invoked before the re-render: the closure still holds the      *)
(* state of the last render while the setState updater receives the        *)
(* current one.                                                            *)
(***************************************************************************)
SubmitTradeBeforeRender(f) ==
  SubmitTradeEvent(f) /\ UNCHANGED <<rendered, timer, local>>

DeleteTradeBeforeRender(t) ==
  DeleteTradeEvent(t) /\ UNCHANGED <<rendered, timer, local>>

AssetPriceUpdateBeforeRender(assetId, newPrice) ==
  AssetPriceUpdateEvent(assetId, newPrice) /\ UNCHANGED <<rendered, timer, local>>

Render ==
  /\ rendered # state
  /\ UNCHANGED <<state, clock, lastOp, mutations, session, dataLoaded, loading,
                 remote, lastMutated>>
  /\ Commit(rendered, state)

BatchNext ==
  \/ \E f \in FormInputs : SubmitTradeBeforeRender(f)
  \/ \E t \in deletableTrades(rendered) : DeleteTradeBeforeRender(t)
  \/ \E a \in editableAssets(rendered), newPrice \in EditedPrices :
        AssetPriceUpdateBeforeRender(a.id, Num(newPrice))
  \/ Render

BatchSpec == Init /\ [][BatchNext]_vars

(***************************************************************************)
(* Persistence: the debounced save, the auth listener and loadData         *)
(***************************************************************************)
\* loadData calls that may await the store at once
MaxLoads == 1

\* the 2-second timeout fires: saveDataToSupabase upserts the state the
\* effect captured
TimerFire ==
  /\ timer # <<>>
  /\ remote' = timer
  /\ timer' = <<>>
  /\ UNCHANGED <<state, clock, lastOp, mutations, rendered, session, dataLoaded,
                 loading, local, lastMutated>>

\* the onAuthStateChange listener: any event that carries a session starts
\* loadData, an event without one installs INITIAL_STATE; the new session
\* object re-runs the save effect
AuthChange(signedIn) ==
  /\ clock <= MaxClock
  /\ signedIn => loading < MaxLoads
  /\ clock' = clock + 1
  /\ session' = signedIn
  /\ loading' = IF signedIn THEN loading + 1 ELSE loading
  /\ state' = IF signedIn THEN state ELSE INITIAL_STATE
  /\ rendered' = state'
  /\ local' = IF signedIn /\ dataLoaded /\ renders(state') THEN <<state'>> ELSE local
  /\ timer' = IF signedIn /\ dataLoaded /\ renders(state') THEN <<state'>> ELSE <<>>
  /\ lastOp' = [op |-> "auth", signedIn |-> signedIn]
  /\ UNCHANGED <<mutations, dataLoaded, remote, lastMutated>>

\* the store answers a loadData call: the row's state, or else the local
\* item, which is then saved to the store at once, is installed
LoadArrives ==
  /\ loading > 0
  /\ clock <= MaxClock
  /\ clock' = clock + 1
  /\ loading' = loading - 1
  /\ state' = loadData(state, remote, local, clock)
  /\ dataLoaded' = TRUE
  /\ remote' = IF remote = <<>> THEN local ELSE remote
  /\ UNCHANGED <<lastOp, mutations, session, lastMutated>>
  /\ Commit(state, state')

\* a loadData call fails.  When the request throws, the catch block logs
\* and nothing is installed; when the store answers with an error object,
\* data is null and the local item is adopted as if there were no row, and
\* the save of it that follows may or may not reach the store.  Either way
\* the finally block sets dataLoaded.
LoadFails(thrown, saveArrives) ==
  /\ loading > 0
  /\ clock <= MaxClock
  /\ clock' = clock + 1
  /\ loading' = loading - 1
  /\ state' = IF thrown THEN state ELSE loadData(state, <<>>, local, clock)
  /\ dataLoaded' = TRUE
  /\ remote' = IF ~ thrown /\ saveArrives /\ local # <<>> THEN local ELSE remote
  /\ UNCHANGED <<lastOp, mutations, session, lastMutated>>
  /\ Commit(state, state')

SaveNext ==
  \/ \E amount \in DepositAmounts : Deposit(Num(amount))
  \/ TimerFire
  \/ \E signedIn \in BOOLEAN : AuthChange(signedIn)
  \/ LoadArrives
  \/ \E thrown, saveArrives \in BOOLEAN : LoadFails(thrown, saveArrives)

SaveSpec == Init /\ [][SaveNext]_vars

\* the timeout, once set and not cleared, fires; the store answers
FairSaveSpec == SaveSpec /\ WF_vars(TimerFire) /\ WF_vars(LoadArrives)

\* a device on which account A was the last to save the traderSimState item:
\* the page is loaded afresh and the account that signs in from now on is
\* another one, B, which has no user_saves row; remote is B's row
OtherAccountInit ==
  /\ state = INITIAL_STATE
  /\ clock = 1
  /\ lastOp = [op |-> "mount"]
  /\ mutations = 0
  /\ rendered = INITIAL_STATE
  /\ session = FALSE
  /\ dataLoaded = FALSE
  /\ loading = 0
  /\ timer = <<>>
  /\ remote = <<>>
  /\ local = <<LoadedState>>
  /\ lastMutated = <<>>

OtherAccountSpec == OtherAccountInit /\ [][SaveNext]_vars


(***************************************************************************)
(* Vocabulary of the properties                                            *)
(***************************************************************************)
\* the portfolio with that id (the id is in the tree)
portfolioOf(st, id) == findPortfolioRecursive(st.rootPortfolios, id)[1]

allocationOf(st, id) == portfolioOf(st, id).allocation

\* the assets named name held by the portfolio id, as a set
holdings(st, id, name) ==
  { a \in Range(portfolioOf(st, id).assets) : a.name = name }

\* holds exactly one asset of that name, with that amount and avgBuyPrice
holdsExactly(st, id, name, amount, avgBuyPrice) ==
  /\ Cardinality(holdings(st, id, name)) = 1
  /\ \A a \in holdings(st, id, name) : a.amount = amount /\ a.avgBuyPrice = avgBuyPrice

\* ids of the portfolios on the path from a root down to id, id included
RECURSIVE pathIds(_, _)
pathIds(portfolios, id) ==
  IF portfolios = <<>> THEN {}
  ELSE LET p == Head(portfolios)
       IN  IF p.id = id THEN {id}
           ELSE LET below == pathIds(p.children, id)
                IN  IF below # {} THEN below \cup {p.id}
                    ELSE pathIds(Tail(portfolios), id)

\* the step submits a form whose trade is the given one
Submits(type, assetName, amount, price, totalValue, fee) ==
  \E f \in FormInputs :
    /\ submitTradeData(f) = [ type |-> type, assetName |-> assetName,
                              price |-> Num(price), amount |-> Num(amount),
                              totalValue |-> Num(totalValue), fee |-> Num(fee) ]
    /\ SubmitTrade(f)

selectedIsPortfolio(st) == st.selectedPortfolioId \in portfolioIds(st)

(***************************************************************************)
(* C1: worked scenario.  From cash 1,000,000 and a selected portfolio      *)
(* without asset X, buying 10 X at 100 (total 1000, fee 10) gives cash     *)
(* 998,990 and X with amount 10 at average 100; buying 10 more at 200      *)
(* (total 2000, fee 20) gives amount 20 at average 150 and cash 996,970;   *)
(* selling 15 at 300 (total 4500, fee 15) records realizedPnl 2250, gives  *)
(* cash 1,001,455, leaves amount 5 at average 150 and raises the           *)
(* allocation of the selected portfolio and of each ancestor by 2235.      *)
(***************************************************************************)
C1_FirstBuy ==
  ( /\ selectedIsPortfolio(state)
    /\ state.cash = Num(1000000)
    /\ holdings(state, state.selectedPortfolioId, "X") = {}
    /\ Submits("buy", "X", 10, 100, 1000, 10) )
  => /\ state'.cash = Num(998990)
     /\ holdsExactly(state', state.selectedPortfolioId, "X", Num(10), Num(100))

C1_SecondBuy ==
  ( /\ selectedIsPortfolio(state)
    /\ state.cash = Num(998990)
    /\ holdsExactly(state, state.selectedPortfolioId, "X", Num(10), Num(100))
    /\ Submits("buy", "X", 10, 200, 2000, 20) )
  => /\ state'.cash = Num(996970)
     /\ holdsExactly(state', state.selectedPortfolioId, "X", Num(20), Num(150))

C1_Sell ==
  ( /\ selectedIsPortfolio(state)
    /\ state.cash = Num(996970)
    /\ holdsExactly(state, state.selectedPortfolioId, "X", Num(20), Num(150))
    /\ Submits("sell", "X", 15, 300, 4500, 15) )
  => /\ state'.cash = Num(1001455)
     /\ state'.tradeHistory # <<>>
     /\ Head(state'.tradeHistory).type = "sell"
     /\ Head(state'.tradeHistory).realizedPnl = Num(2250)
     /\ holdsExactly(state', state.selectedPortfolioId, "X", Num(5), Num(150))
     /\ \A id \in pathIds(state.rootPortfolios, state.selectedPortfolioId) :
          allocationOf(state', id) = Add(allocationOf(state, id), Num(2235))

C1_Scenario == [][C1_FirstBuy /\ C1_SecondBuy /\ C1_Sell]_vars

\* the scenario has run in a nested portfolio: the three trades are the
\* ledger, newest first, and the end state is the one the scenario names
C1_Witness ==
  /\ Len(state.tradeHistory) = 3
  /\ state.tradeHistory[1].type = "sell" /\ state.tradeHistory[1].amount = Num(15)
  /\ state.tradeHistory[2].type = "buy"  /\ state.tradeHistory[2].price = Num(200)
  /\ state.tradeHistory[3].type = "buy"  /\ state.tradeHistory[3].price = Num(100)
  /\ \A i \in 1..3 : state.tradeHistory[i].portfolioId = "p-1-1"
  /\ state.cash = Num(1001455)
  /\ holdsExactly(state, "p-1-1", "X", Num(5), Num(150))
  /\ allocationOf(state, "p-1") = Num(300002235)
  /\ allocationOf(state, "p-1-1") = Num(100002235)


(***************************************************************************)
(* C2: a sell whose amount exceeds the amount held in the target           *)
(* portfolio, or whose asset is not held there, and a buy whose            *)
(* totalValue + fee exceeds the cash, is rejected: the submission leaves   *)
(* cash, the whole portfolio tree (asset lists and allocations), the       *)
(* ledger and the net-worth history as they were.                          *)
(***************************************************************************)
C2_MustReject(f) ==
  LET tradeData == submitTradeData(f)
  IN  \/ /\ tradeData.type = "sell"
         /\ selectedIsPortfolio(state)
         /\ \A a \in holdings(state, state.selectedPortfolioId, tradeData.assetName) :
              Less(a.amount, tradeData.amount)
      \/ /\ tradeData.type = "buy"
         /\ Less(state.cash, Add(tradeData.totalValue, tradeData.fee))

C2_RejectionLeavesState ==
  [][ \A f \in FormInputs :
        (C2_MustReject(f) /\ SubmitTrade(f))
        => /\ state'.cash = state.cash
           /\ state'.rootPortfolios = state.rootPortfolios
           /\ state'.tradeHistory = state.tradeHistory
           /\ state'.netWorthHistory = state.netWorthHistory ]_vars

\* a sell of 15 X was just rejected by a portfolio that holds 10 X
C2_Witness ==
  /\ lastOp = [op |-> "trade", type |-> "sell", accepted |-> FALSE]
  /\ selectedIsPortfolio(state)
  /\ \E a \in holdings(state, state.selectedPortfolioId, "X") : a.amount = Num(10)
  /\ holdings(state, state.selectedPortfolioId, "E") = {}

(***************************************************************************)
(* C3: a successful sell with netPnl = realizedPnl - fee raises the        *)
(* allocation of the target portfolio and of every ancestor on its path    *)
(* to the root by exactly netPnl and leaves the allocation of every other  *)
(* portfolio unchanged; a buy changes no allocation.                       *)
(***************************************************************************)
\* the step appends trade t to the ledger
Executes(t) == state'.tradeHistory = <<t>> \o state.tradeHistory

C3_Propagation ==
  [][ state'.tradeHistory # <<>> /\ Executes(Head(state'.tradeHistory))
      => LET t == Head(state'.tradeHistory)
             netPnl == Sub(t.realizedPnl, t.fee)
             path == pathIds(state.rootPortfolios, t.portfolioId)
         IN  /\ portfolioIds(state') = portfolioIds(state)
             /\ \A id \in portfolioIds(state) :
                  allocationOf(state', id) =
                    IF t.type = "sell" /\ id \in path
                    THEN Add(allocationOf(state, id), netPnl)
                    ELSE allocationOf(state, id) ]_vars

\* a sell with a non-zero netPnl was just executed in p-1-1, which has a
\* sibling: p-1-1 and its parent p-1 moved by the same amount, the sibling
\* and the other root did not move
C3_Witness ==
  /\ lastOp = [op |-> "trade", type |-> "sell", accepted |-> TRUE]
  /\ Head(state.tradeHistory).portfolioId = "p-1-1"
  /\ {"p-1", "p-1-1", "p-2"} \subseteq portfolioIds(state)
  /\ Len(portfolioOf(state, "p-1").children) = 2
  /\ allocationOf(state, "p-1-1") # Num(100000000)
  /\ Sub(allocationOf(state, "p-1-1"), Num(100000000))
       = Sub(allocationOf(state, "p-1"), Num(300000000))
  /\ allocationOf(state, "p-2") = Num(200000000)
  /\ \A c \in Range(portfolioOf(state, "p-1").children) :
       c.id # "p-1-1" => c.allocation = Num(50000000)


(***************************************************************************)
(* C4: after accepted trades followed by trade deletions, the asset list   *)
(* of each portfolio (names, amounts, avgBuyPrice) equals the list the     *)
(* incremental trade executor produces when the surviving trades of that   *)
(* portfolio are submitted to it in ascending timestamp order from an      *)
(* empty portfolio, the executor rejecting what it would reject.           *)
(***************************************************************************)
\* the trade executor applied to a ledger entry: handleSubmit's holdings
\* check, then the buy or sell branch of handleTrade
executorStep(assets, t) ==
  LET i == findAssetIndex(assets, t.assetName)
  IN  IF t.type = "buy" THEN buyAssets(assets, t, t.timestamp)
      ELSE IF i = 0 \/ Less(assets[i].amount, t.amount) THEN assets
           ELSE sellAssets(assets, i, t)

RECURSIVE executorRun(_, _)
executorRun(assets, trades) ==
  IF trades = <<>> THEN assets
  ELSE executorRun(executorStep(assets, Head(trades)), Tail(trades))

incrementalAssets(portfolioId, trades) ==
  executorRun(<<>>, sortByTimestamp(SelectSeq(trades, LAMBDA t : t.portfolioId = portfolioId)))

assetView(assets) ==
  [ i \in 1..Len(assets) |->
      [ name |-> assets[i].name, amount |-> assets[i].amount,
        avgBuyPrice |-> assets[i].avgBuyPrice ] ]

C4_ReplayEqualsExecutor ==
  \A id \in portfolioIds(state) :
    assetView(portfolioOf(state, id).assets)
      = assetView(incrementalAssets(id, state.tradeHistory))

(***************************************************************************)
(* C5: deleting a sell trade lowers the allocation of the trade's          *)
(* portfolio and of every ancestor on its path to the root by the trade's  *)
(* netPnl (realizedPnl - fee), and leaves the other allocations alone, so  *)
(* that a sell followed by its deletion restores every allocation.         *)
(***************************************************************************)
C5_DeleteRevertsAllocation ==
  [][ \A t \in deletableTrades(state) :
        ( /\ t.type = "sell"
          /\ t.portfolioId \in portfolioIds(state)
          /\ DeleteTrade(t) )
        => LET netPnl == Sub(t.realizedPnl, t.fee)
               path == pathIds(state.rootPortfolios, t.portfolioId)
           IN  \A id \in portfolioIds(state) :
                 allocationOf(state', id) =
                   IF id \in path THEN Sub(allocationOf(state, id), netPnl)
                   ELSE allocationOf(state, id) ]_vars

(***************************************************************************)
(* C6: while the ledger holds only buys of an asset name for a portfolio,  *)
(* the asset's amount is the sum of the amounts of those buys and its      *)
(* avgBuyPrice is the sum of their totalValue divided by the sum of their  *)
(* amounts, the first buy, which creates the asset, included.              *)
(***************************************************************************)
tradesOf(st, id, name) ==
  SelectSeq(st.tradeHistory, LAMBDA t : t.portfolioId = id /\ t.assetName = name)

RECURSIVE sumAmounts(_)
sumAmounts(trades) ==
  IF trades = <<>> THEN Num(0) ELSE Add(Head(trades).amount, sumAmounts(Tail(trades)))

RECURSIVE sumTotalValues(_)
sumTotalValues(trades) ==
  IF trades = <<>> THEN Num(0) ELSE Add(Head(trades).totalValue, sumTotalValues(Tail(trades)))

boughtNames(st) == { st.tradeHistory[i].assetName : i \in 1..Len(st.tradeHistory) }

C6_WeightedAverage ==
  \A id \in portfolioIds(state) : \A name \in boughtNames(state) :
    LET buys == tradesOf(state, id, name)
    IN  (buys # <<>> /\ \A i \in 1..Len(buys) : buys[i].type = "buy")
        => holdsExactly(state, id, name, sumAmounts(buys),
                        Div(sumTotalValues(buys), sumAmounts(buys)))


(***************************************************************************)
(* C7: an accepted sell that leaves at most epsilon (1e-6) of the asset    *)
(* removes the asset from the portfolio; one that leaves more keeps the    *)
(* asset, lowers its amount by the sold amount, sets currentPrice to the   *)
(* trade price and keeps avgBuyPrice.  Either way cash grows by            *)
(* totalValue - fee and the recorded realizedPnl is (price - avgBuyPrice   *)
(* before the sell) x amount.                                              *)
(***************************************************************************)
C7_SellEffect ==
  [][ ( /\ state'.tradeHistory # <<>>
        /\ Executes(Head(state'.tradeHistory))
        /\ Head(state'.tradeHistory).type = "sell" )
      => LET t == Head(state'.tradeHistory)
         IN  /\ Cardinality(holdings(state, t.portfolioId, t.assetName)) = 1
             /\ \A a \in holdings(state, t.portfolioId, t.assetName) :
                  LET remaining == Sub(a.amount, t.amount)
                  IN  /\ IF Leq(remaining, EPSILON)
                         THEN holdings(state', t.portfolioId, t.assetName) = {}
                         ELSE holdings(state', t.portfolioId, t.assetName) =
                                { [a EXCEPT !.amount = remaining,
                                            !.currentPrice = t.price] }
                      /\ t.realizedPnl = Mul(Sub(t.price, a.avgBuyPrice), t.amount)
             /\ state'.cash = Add(state.cash, Sub(t.totalValue, t.fee)) ]_vars

\* a sell of 1 E out of 1.0000005 E was just executed: the remainder of
\* 0.0000005 is positive but below epsilon, and the asset is gone
C7_Witness ==
  /\ lastOp = [op |-> "trade", type |-> "sell", accepted |-> TRUE]
  /\ Len(state.tradeHistory) = 2
  /\ state.tradeHistory[1].type = "sell"
  /\ state.tradeHistory[1].assetName = "E"
  /\ state.tradeHistory[1].amount = Num(1)
  /\ state.tradeHistory[2].type = "buy"
  /\ state.tradeHistory[2].assetName = "E"
  /\ state.tradeHistory[2].amount = Frac(10000005, 10000000)
  /\ state.tradeHistory[2].portfolioId = state.tradeHistory[1].portfolioId
  /\ holdings(state, state.tradeHistory[1].portfolioId, "E") = {}
  /\ state.cash = Sub(Num(LoadedCash), Frac(2000001, 1000000))

(***************************************************************************)
(* C8: deleting a trade that is in the ledger removes exactly that trade   *)
(* from the ledger and changes cash by the reverse of that trade's own     *)
(* cash effect: plus totalValue + fee for a buy, minus totalValue - fee    *)
(* for a sell.                                                             *)
(***************************************************************************)
reverseCashEffect(t) ==
  IF t.type = "buy" THEN Add(t.totalValue, t.fee)
  ELSE Neg(Sub(t.totalValue, t.fee))

deletesExactly(t) ==
  /\ state'.tradeHistory = SelectSeq(state.tradeHistory, LAMBDA u : u # t)
  /\ Len(state'.tradeHistory) = Len(state.tradeHistory) - 1
  /\ state'.cash = Add(state.cash, reverseCashEffect(t))

C8_DeleteTrade ==
  [][ \A t \in deletableTrades(state) : DeleteTrade(t) => deletesExactly(t) ]_vars

\* the same statement for the trades whose portfolio is still in the tree
C8_DeleteTradeOfLivePortfolio ==
  [][ \A t \in deletableTrades(state) :
        (t.portfolioId \in portfolioIds(state) /\ DeleteTrade(t))
        => deletesExactly(t) ]_vars

(***************************************************************************)
(* C9: the length of netWorthHistory is its length at load plus the number *)
(* of mutating operations since load (non-zero deposits and withdrawals,   *)
(* accepted trades, price edits, trade deletions, portfolio deletions).    *)
(***************************************************************************)
C9_HistoryLength ==
  Len(state.netWorthHistory) = Len(LoadedState.netWorthHistory) + mutations

(***************************************************************************)
(* C10: after an accepted trade, a deposit or withdrawal, a price edit, a  *)
(* trade deletion, or the deletion of a portfolio whose subtree holds      *)
(* assets, the last entry of netWorthHistory is the resulting cash plus    *)
(* the aggregate value of all root portfolios.                             *)
(***************************************************************************)
subtreeHoldsAssets(p) ==
  \E q \in Range(flattenPortfolios(<<p>>)) : q.assets # <<>>

changesCashOrAssets ==
  \/ lastOp'.op = "trade" /\ lastOp'.accepted
  \/ lastOp'.op = "deposit" /\ lastOp'.accepted
  \/ lastOp'.op = "price"
  \/ lastOp'.op = "deleteTrade" /\ lastOp'.accepted
  \/ \E id \in portfolioIds(state) :
       DeletePortfolio(id) /\ subtreeHoldsAssets(portfolioOf(state, id))

C10_SnapshotIsNetWorth ==
  [][ changesCashOrAssets
      => state'.netWorthHistory[Len(state'.netWorthHistory)].value
           = Add(state'.cash, totalAssets(state'.rootPortfolios)) ]_vars


(***************************************************************************)
(* C11: for a ledger of one buy of amount a of an asset in a portfolio     *)
(* and one later sell of the same amount of the same asset in the same     *)
(* portfolio, position reconstruction emits exactly one position: CLOSED,  *)
(* holding both trades in order, with endDate the sell's timestamp and     *)
(* realizedPnl = (sell price - avgBuyPrice) x a - sell fee.                *)
(***************************************************************************)
\* the ledger (stored newest first) is a buy followed by a sell of the same
\* amount of the same asset in the same portfolio
isRoundTrip(ledger) ==
  /\ Len(ledger) = 2
  /\ ledger[2].type = "buy" /\ ledger[1].type = "sell"
  /\ ledger[2].timestamp < ledger[1].timestamp
  /\ ledger[2].assetName = ledger[1].assetName
  /\ ledger[2].portfolioId = ledger[1].portfolioId
  /\ ledger[2].amount = ledger[1].amount

C11_RoundTripPosition ==
  isRoundTrip(state.tradeHistory)
  => LET buy  == state.tradeHistory[2]
         sell == state.tradeHistory[1]
         positions == processPositions(state.tradeHistory)
     IN  /\ Len(positions) = 1
         /\ positions[1].status = "CLOSED"
         /\ positions[1].trades = <<buy, sell>>
         /\ positions[1].endDate = sell.timestamp
         /\ positions[1].realizedPnl =
              Sub(Mul(Sub(sell.price, positions[1].avgBuyPrice), sell.amount), sell.fee)

\* the same with the sell valued at its recorded totalValue
C11_RoundTripPositionByTotalValue ==
  isRoundTrip(state.tradeHistory)
  => LET buy  == state.tradeHistory[2]
         sell == state.tradeHistory[1]
         positions == processPositions(state.tradeHistory)
     IN  /\ Len(positions) = 1
         /\ positions[1].status = "CLOSED"
         /\ positions[1].trades = <<buy, sell>>
         /\ positions[1].endDate = sell.timestamp
         /\ positions[1].realizedPnl =
              Sub(Sub(sell.totalValue,
                      Mul(positions[1].avgBuyPrice, sell.amount)), sell.fee)


(***************************************************************************)
(* C12: with every submitted trade of amount > 0, each portfolio's asset   *)
(* list holds at most one asset per asset name and every listed asset has  *)
(* an amount greater than epsilon (1e-6).                                  *)
(***************************************************************************)
oneAssetPerName(assets) ==
  \A i, j \in 1..Len(assets) : assets[i].name = assets[j].name => i = j

positiveInputs == \A f \in FormInputs : Less(Num(0), formAmount(f))

C12_AssetList ==
  positiveInputs
  => \A p \in Range(flattenPortfolios(state.rootPortfolios)) :
       /\ oneAssetPerName(p.assets)
       /\ \A i \in 1..Len(p.assets) : Less(EPSILON, p.assets[i].amount)

\* the part of C12 that does not depend on the size of the amounts
C12_OneAssetPerName ==
  \A p \in Range(flattenPortfolios(state.rootPortfolios)) : oneAssetPerName(p.assets)


(***************************************************************************)
(* C13: every mutating operation is a function of the state immediately    *)
(* preceding it: a handler invoked against a rendered snapshot that an     *)
(* earlier handler has already superseded yields the state it would yield  *)
(* when run after that handler, so no update is lost.  Stated for the     *)
(* trades the form lets through, the trade deletions and the price edits.  *)
(***************************************************************************)
\* the outcome of the operation when it runs on st alone
tradeOn(st, f, now) ==
  IF submitAccepts(f, selectedPortfolio(st), st.cash)
  THEN handleTrade(st, st, submitTradeData(f), now) ELSE st

C13_AtomicHandlers ==
  [][ /\ \A f \in FormInputs :
           (SubmitTradeBeforeRender(f) /\ lastOp'.accepted)
           => state' = tradeOn(state, f, clock)
      /\ \A t \in deletableTrades(rendered) :
           DeleteTradeBeforeRender(t)
           => state' = handleDeleteTrade(state, state, t.id, t.portfolioId, clock)
      /\ \A a \in editableAssets(rendered), newPrice \in EditedPrices :
           AssetPriceUpdateBeforeRender(a.id, Num(newPrice))
           => state' = handleAssetPriceUpdate(state, state, a.id, Num(newPrice), clock)
    ]_vars


(***************************************************************************)
(* C14: a debounced save scheduled for a state does not run once a newer   *)
(* state is installed: the timeout is cleared and replaced by one for the  *)
(* newer state, so the timeout never saves a state older than the state    *)
(* in memory.                                                              *)
(***************************************************************************)
C14_TimerCarriesCurrentState ==
  [][ /\ TimerFire => (timer = <<state>> /\ remote' = <<state>>)
      /\ (state' # state /\ timer # <<>>)
           => (timer' = IF session' /\ dataLoaded' THEN <<state'>> ELSE <<>>) ]_vars

\* two withdrawals were made before the timeout fired: the one save issued
\* carries the state after the second
C14_Witness ==
  /\ mutations = 2
  /\ lastOp = [op |-> "deposit", accepted |-> TRUE]
  /\ timer = <<>>
  /\ remote = <<state>>
  /\ state.cash = Sub(Num(LoadedCash), Num(1999000))

(***************************************************************************)
(* C15: while the session stays active, every mutation made with loaded    *)
(* data is eventually carried by a remote save: once the mutations stop    *)
(* and the timeout fires, the save holds the state after the last          *)
(* mutation.                                                               *)
(***************************************************************************)
C15_EveryMutationSaved ==
  ([]session) => ((lastMutated # <<>>) ~> (remote = lastMutated))


(***************************************************************************)
(* C16: creating a portfolio is rejected, leaving all state unchanged,     *)
(* when the new allocation plus the allocations of the parent's existing   *)
(* children exceeds the parent's allocation or, for a new root, when the   *)
(* new allocation plus the root allocations exceeds cash + aggregate       *)
(* value; otherwise exactly one node with no assets and no children is     *)
(* appended as the last child of the parent (or last root) and no other    *)
(* node changes.                                                           *)
(***************************************************************************)
exceedsBudget(st, parentId, allocationAmount) ==
  IF parentId = NULL
  THEN Less(Add(st.cash, totalAssets(st.rootPortfolios)),
            Add(sumAllocations(st.rootPortfolios), allocationAmount))
  ELSE Less(allocationOf(st, parentId),
            Add(sumAllocations(portfolioOf(st, parentId).children), allocationAmount))

childIds(portfolios) == [ i \in 1..Len(portfolios) |-> portfolios[i].id ]

\* a node without its subtree
shallow(p) ==
  [ id |-> p.id, name |-> p.name, allocation |-> p.allocation,
    assets |-> p.assets, children |-> childIds(p.children) ]

\* st2 is st with one empty node of that name and allocation appended under
\* parentId, everything else as it was
appendsOneNode(st, st2, parentId, name, allocationAmount) ==
  \E newId \in portfolioIds(st2) \ portfolioIds(st) :
    /\ portfolioIds(st2) = portfolioIds(st) \cup {newId}
    /\ portfolioOf(st2, newId) =
         [ id |-> newId, name |-> name, allocation |-> allocationAmount,
           assets |-> <<>>, children |-> <<>> ]
    /\ childIds(st2.rootPortfolios) =
         IF parentId = NULL THEN Append(childIds(st.rootPortfolios), newId)
         ELSE childIds(st.rootPortfolios)
    /\ \A id \in portfolioIds(st) :
         shallow(portfolioOf(st2, id)) =
           IF id = parentId
           THEN [shallow(portfolioOf(st, id)) EXCEPT !.children = Append(@, newId)]
           ELSE shallow(portfolioOf(st, id))
    /\ st2.cash = st.cash
    /\ st2.tradeHistory = st.tradeHistory
    /\ st2.netWorthHistory = st.netWorthHistory
    /\ st2.selectedPortfolioId = st.selectedPortfolioId

C16_AddPortfolioAnyName ==
  [][ \A parentId \in portfolioIds(state) \cup {NULL}, name \in PortfolioNames,
         a \in NewAllocations :
        AddPortfolio(parentId, name, Num(a))
        => IF exceedsBudget(state, parentId, Num(a))
           THEN state' = state
           ELSE appendsOneNode(state, state', parentId, name, Num(a)) ]_vars

\* the same for a portfolio that was given a name
C16_AddPortfolio ==
  [][ \A parentId \in portfolioIds(state) \cup {NULL}, name \in PortfolioNames \ {""},
         a \in NewAllocations :
        AddPortfolio(parentId, name, Num(a))
        => IF exceedsBudget(state, parentId, Num(a))
           THEN state' = state
           ELSE appendsOneNode(state, state', parentId, name, Num(a)) ]_vars

\* a third root was accepted while p-1-1, fully allocated to its
\* sub-portfolio, is still in the tree to refuse a child
C16_Witness ==
  /\ lastOp = [op |-> "addPortfolio", accepted |-> TRUE]
  /\ Len(state.rootPortfolios) = 3
  /\ state.rootPortfolios[3] =
       [ id |-> "p-" \o TimeString(LoadClock + 1), name |-> "new",
         allocation |-> Num(50000000), assets |-> <<>>, children |-> <<>> ]
  /\ ~ exceedsBudget(rendered, NULL, Num(50000000))


(***************************************************************************)
(* C17: deleting portfolio id removes that node and its entire subtree     *)
(* and leaves every node outside the subtree unchanged (ids, names,        *)
(* allocations, assets, child order); the selection becomes null if it     *)
(* was id and is unchanged otherwise.                                      *)
(***************************************************************************)
subtreeIds(st, id) == { p.id : p \in Range(flattenPortfolios(<<portfolioOf(st, id)>>)) }

without(ids, gone) == SelectSeq(ids, LAMBDA k : k \notin gone)

C17_DeletePortfolio ==
  [][ \A id \in portfolioIds(state) :
        DeletePortfolio(id)
        => LET gone == subtreeIds(state, id)
           IN  /\ portfolioIds(state') = portfolioIds(state) \ gone
               /\ childIds(state'.rootPortfolios) =
                    without(childIds(state.rootPortfolios), gone)
               /\ \A k \in portfolioIds(state) \ gone :
                    shallow(portfolioOf(state', k)) =
                      [shallow(portfolioOf(state, k)) EXCEPT !.children = without(@, gone)]
               /\ state'.selectedPortfolioId =
                    IF state.selectedPortfolioId = id THEN NULL
                    ELSE state.selectedPortfolioId
               /\ state'.cash = state.cash
               /\ state'.tradeHistory = state.tradeHistory
               /\ state'.netWorthHistory = state.netWorthHistory ]_vars

\* p-1 went with its child p-1-1 and the asset bought there, while the
\* selection, which was on the child, stayed as it was
C17_Witness ==
  /\ lastOp = [op |-> "deletePortfolio"]
  /\ portfolioIds(state) = {"p-2"}
  /\ state.selectedPortfolioId = "p-1-1"
  /\ \E i \in 1..Len(state.tradeHistory) : state.tradeHistory[i].portfolioId = "p-1-1"

\* the selected portfolio was deleted and the selection cleared
C17_WitnessSelected ==
  /\ lastOp = [op |-> "deletePortfolio"]
  /\ "p-1-1" \notin portfolioIds(state)
  /\ "p-1" \in portfolioIds(state)
  /\ state.selectedPortfolioId = NULL
  /\ state.tradeHistory # <<>>


(***************************************************************************)
(* C18: a sell in the ledger with no matching holding is a no-op: in       *)
(* replay a sell for an asset name with no current holding leaves the      *)
(* replayed asset map unchanged, and in position reconstruction a sell     *)
(* for a (portfolioId, assetName) with no open position creates no         *)
(* position, changes no existing position and is attached to none.         *)
(***************************************************************************)
ledgerPortfolios(st) == { st.tradeHistory[i].portfolioId : i \in 1..Len(st.tradeHistory) }

pTradesOf(st, portfolioId) ==
  sortByTimestamp(SelectSeq(st.tradeHistory, LAMBDA t : t.portfolioId = portfolioId))

\* the k-th trade of the replay is a sell of a name the map does not hold
sellWithoutHolding(pTrades, k) ==
  /\ pTrades[k].type = "sell"
  /\ findAssetIndex(replayAll(<<>>, SubSeq(pTrades, 1, k - 1)), pTrades[k].assetName) = 0

positionsAfter(sortedTrades, k) ==
  positionFold([positions |-> <<>>, openMap |-> <<>>], SubSeq(sortedTrades, 1, k))

\* the k-th trade of the reconstruction is a sell with no open position
sellWithoutPosition(sortedTrades, k) ==
  /\ sortedTrades[k].type = "sell"
  /\ openIndex(positionsAfter(sortedTrades, k - 1).openMap,
               sortedTrades[k].portfolioId \o "-" \o sortedTrades[k].assetName) = 0

C18_WitnessReplayed ==
  /\ lastOp.op = "deleteTrade"
  /\ Len(state.tradeHistory) = 1
  /\ state.tradeHistory[1].type = "sell"
  /\ processPositions(state.tradeHistory) = <<>>
  /\ portfolioOf(state, state.tradeHistory[1].portfolioId).assets = <<>>


(***************************************************************************)
(* C19: whenever loadData installs a snapshot that lacks netWorthHistory,  *)
(* from the remote store or from the local-cache fallback, the installed   *)
(* state has a netWorthHistory of exactly one entry whose value is the     *)
(* snapshot's cash plus the aggregate value of its root portfolios; no     *)
(* installed state ever has a missing netWorthHistory.                     *)
(***************************************************************************)
C19_LoadSynthesizesHistory ==
  /\ "netWorthHistory" \in DOMAIN state
  /\ (lastOp.op = "load" /\ lastOp.lacked)
       => /\ Len(state.netWorthHistory) = 1
          /\ state.netWorthHistory[1].value =
               Add(state.cash, totalAssets(state.rootPortfolios))

\* the same for snapshots that came from the remote store
C19_RemoteLoadSynthesizesHistory ==
  (lastOp.op = "load" /\ lastOp.source = "remote")
    => /\ "netWorthHistory" \in DOMAIN state
       /\ lastOp.lacked
            => /\ Len(state.netWorthHistory) = 1
               /\ state.netWorthHistory[1].value =
                    Add(state.cash, totalAssets(state.rootPortfolios))


(***************************************************************************)
(* C20: position reconstruction does not depend on the storage order of    *)
(* the ledger: for any ordering of the same trades the set of emitted      *)
(* positions (status, remainingAmount, avgBuyPrice, realizedPnl, ordered   *)
(* constituent trades) is the one obtained by processing the trades in     *)
(* the order they were executed, also when two trades of one (portfolio,   *)
(* asset) carry equal timestamps and the ledger is stored newest-first.    *)
(***************************************************************************)
positionView(p) ==
  [ status |-> p.status, remainingAmount |-> p.remainingAmount,
    avgBuyPrice |-> p.avgBuyPrice, realizedPnl |-> p.realizedPnl,
    trades |-> p.trades ]

emitted(positions) == { positionView(p) : p \in Range(positions) }

\* the ledger is stored newest-first: the order of execution is its reverse
executionOrder(tradeHistory) ==
  [ i \in 1..Len(tradeHistory) |-> tradeHistory[Len(tradeHistory) + 1 - i] ]

positionsInExecutionOrder(tradeHistory) ==
  LET acc == positionFold([positions |-> <<>>, openMap |-> <<>>],
                          executionOrder(tradeHistory))
  IN  emitted(acc.positions \o [ i \in 1..Len(acc.openMap) |-> acc.openMap[i].position ])

reordered(tradeHistory, perm) == [ i \in 1..Len(tradeHistory) |-> tradeHistory[perm[i]] ]

C20_StorageOrderIndependent ==
  \A perm \in Permutations(1..Len(state.tradeHistory)) :
    emitted(processPositions(reordered(state.tradeHistory, perm)))
      = positionsInExecutionOrder(state.tradeHistory)

distinctTimestamps(tradeHistory) ==
  \A i, j \in 1..Len(tradeHistory) :
    i # j => tradeHistory[i].timestamp # tradeHistory[j].timestamp

\* the same for ledgers in which no two trades carry the same timestamp
C20_OrderIndependentDistinctTimestamps ==
  distinctTimestamps(state.tradeHistory) => C20_StorageOrderIndependent


(***************************************************************************)
(* C21: after a trade deletion the asset list of the trade's portfolio is  *)
(* a function only of the surviving ledger entries of that portfolio (not  *)
(* of the asset list before the deletion, manual price edits included),    *)
(* and nothing else in the tree changes: the asset lists of the other      *)
(* portfolios, all names, the tree shape and the selection are as before;  *)
(* if the trade's portfolio is no longer in the tree, no state changes.    *)
(***************************************************************************)
sameShape(st, st2) ==
  /\ portfolioIds(st2) = portfolioIds(st)
  /\ childIds(st2.rootPortfolios) = childIds(st.rootPortfolios)
  /\ \A k \in portfolioIds(st) :
       /\ portfolioOf(st2, k).name = portfolioOf(st, k).name
       /\ childIds(portfolioOf(st2, k).children) = childIds(portfolioOf(st, k).children)

C21_DeletionReplaysLedger ==
  [][ \A t \in deletableTrades(state) :
        DeleteTrade(t)
        => IF t.portfolioId \notin portfolioIds(state)
           THEN state' = state
           ELSE /\ portfolioOf(state', t.portfolioId).assets =
                     replayAll(<<>>, pTradesOf(state', t.portfolioId))
                /\ \A k \in portfolioIds(state) \ {t.portfolioId} :
                     portfolioOf(state', k).assets = portfolioOf(state, k).assets
                /\ sameShape(state, state')
                /\ state'.selectedPortfolioId = state.selectedPortfolioId ]_vars

\* 10 X were bought at 100 and repriced to 250 by hand (the net-worth entry
\* of cash + 2500 records it); the deletion of a later trade replayed the
\* ledger and the holding carries the price of its trade again
C21_Witness ==
  /\ lastOp.op = "deleteTrade" /\ lastOp.accepted
  /\ Len(state.tradeHistory) = 1
  /\ LET pid == state.tradeHistory[1].portfolioId
     IN  /\ pid \in portfolioIds(state)
         /\ Len(portfolioOf(state, pid).assets) = 1
         /\ portfolioOf(state, pid).assets[1].name = "X"
         /\ portfolioOf(state, pid).assets[1].amount = Num(10)
         /\ portfolioOf(state, pid).assets[1].currentPrice = Num(100)
  /\ \E i \in 1..Len(state.netWorthHistory) :
       state.netWorthHistory[i].value = Add(state.cash, Num(2500))

\* a trade of a portfolio that was deleted from the tree was offered and its
\* deletion refused
C21_WitnessGone ==
  /\ lastOp.op = "deleteTrade" /\ ~ lastOp.accepted
  /\ \E i \in 1..Len(state.tradeHistory) :
       state.tradeHistory[i].portfolioId \notin portfolioIds(state)


(***************************************************************************)
(* C22: position reconstruction never groups trades of two different       *)
(* (portfolioId, assetName) pairs into one position: all constituent       *)
(* trades of an emitted position have the position's portfolioId and       *)
(* assetName, for all ids and names, portfolio ids that are a prefix of    *)
(* another (p-1 and p-1-1) and asset names containing '-' included.        *)
(***************************************************************************)
C22_PositionsGroupOnePair ==
  \A p \in Range(processPositions(state.tradeHistory)) :
    \A t \in Range(p.trades) :
      t.portfolioId = p.portfolioId /\ t.assetName = p.assetName


(***************************************************************************)
(* C23: in every state reached by accepted trades and trade deletions (no  *)
(* portfolio deleted) the derived positions agree with the held assets:    *)
(* for each portfolio and asset name there is an OPEN position exactly     *)
(* when the portfolio holds that asset, and then the position's            *)
(* remainingAmount and avgBuyPrice equal the asset's amount and            *)
(* avgBuyPrice.                                                            *)
(***************************************************************************)
openPositions(st, portfolioId, name) ==
  { p \in Range(processPositions(st.tradeHistory)) :
      p.status = "OPEN" /\ p.portfolioId = portfolioId /\ p.assetName = name }

tradedNames(st) == { st.tradeHistory[i].assetName : i \in 1..Len(st.tradeHistory) }

heldNames(st) ==
  UNION { { a.name : a \in Range(p.assets) } : p \in Range(flattenPortfolios(st.rootPortfolios)) }

ledgerPortfoliosLive(st) == ledgerPortfolios(st) \subseteq portfolioIds(st)

C23_PositionsAgreeWithAssets ==
  ledgerPortfoliosLive(state)
  => \A portfolioId \in portfolioIds(state), name \in tradedNames(state) \cup heldNames(state) :
       /\ (openPositions(state, portfolioId, name) # {})
            <=> (holdings(state, portfolioId, name) # {})
       /\ \A p \in openPositions(state, portfolioId, name),
             a \in holdings(state, portfolioId, name) :
            /\ p.remainingAmount = a.amount
            /\ p.avgBuyPrice = a.avgBuyPrice

\* the same without the comparison of avgBuyPrice
C23_OpenPositionIffHeld ==
  ledgerPortfoliosLive(state)
  => \A portfolioId \in portfolioIds(state), name \in tradedNames(state) \cup heldNames(state) :
       /\ (openPositions(state, portfolioId, name) # {})
            <=> (holdings(state, portfolioId, name) # {})
       /\ \A p \in openPositions(state, portfolioId, name),
             a \in holdings(state, portfolioId, name) :
            p.remainingAmount = a.amount


(***************************************************************************)
(* C24: in every reachable state, for every sell in the ledger that        *)
(* belongs to a reconstructed position, the realizedPnl stored on the      *)
(* trade minus its fee equals the tradePnl position reconstruction         *)
(* computes for it (totalValue - amount x the position's avgBuyPrice at    *)
(* that point - fee), also after earlier trades of the asset were deleted. *)
(***************************************************************************)
\* the open position the k-th trade of the reconstruction is applied to
positionAt(sortedTrades, k) ==
  LET acc == positionsAfter(sortedTrades, k - 1)
      i   == openIndex(acc.openMap,
                       sortedTrades[k].portfolioId \o "-" \o sortedTrades[k].assetName)
  IN  acc.openMap[i].position

reconstructedPnl(sortedTrades, k) ==
  Sub(Sub(sortedTrades[k].totalValue,
          Mul(sortedTrades[k].amount, positionAt(sortedTrades, k).avgBuyPrice)),
      sortedTrades[k].fee)

C24_StoredPnlIsReconstructedPnl ==
  LET sortedTrades == sortByTimestamp(state.tradeHistory)
  IN  \A k \in 1..Len(sortedTrades) :
        (sortedTrades[k].type = "sell" /\ ~ sellWithoutPosition(sortedTrades, k))
        => Sub(sortedTrades[k].realizedPnl, sortedTrades[k].fee)
             = reconstructedPnl(sortedTrades, k)


(***************************************************************************)
(* C25: round trip.  From any state reached by accepted trades only, an    *)
(* accepted buy followed by the deletion of that buy restores cash, the    *)
(* ledger, every allocation and, for the affected portfolio, the set of    *)
(* held assets with their amounts and avgBuyPrice to their values before   *)
(* the buy; netWorthHistory grows by two entries, asset ids and            *)
(* currentPrice may differ.                                                *)
(***************************************************************************)
\* the state after form f is submitted at clock now and the trade it made
\* is deleted at the next reading of the clock
buyThenDelete(st, f, now) ==
  LET bought == handleTrade(st, st, submitTradeData(f), now)
      t      == Head(bought.tradeHistory)
  IN  handleDeleteTrade(bought, bought, t.id, t.portfolioId, now + 1)

assetFigures(st, portfolioId) ==
  { [ name |-> a.name, amount |-> a.amount, avgBuyPrice |-> a.avgBuyPrice ] :
      a \in Range(portfolioOf(st, portfolioId).assets) }

\* every mutating operation since the load was an accepted trade
tradesOnly == mutations = Len(state.tradeHistory)

C25_BuyThenDeleteRestores ==
  tradesOnly
  => \A f \in FormInputs :
       (f.type = "buy" /\ submitAccepts(f, selectedPortfolio(state), state.cash))
       => LET after == buyThenDelete(state, f, clock)
          IN  /\ after.cash = state.cash
              /\ after.tradeHistory = state.tradeHistory
              /\ \A k \in portfolioIds(state) :
                   allocationOf(after, k) = allocationOf(state, k)
              /\ assetFigures(after, state.selectedPortfolioId)
                   = assetFigures(state, state.selectedPortfolioId)
              /\ Len(after.netWorthHistory) = Len(state.netWorthHistory) + 2

\* the same without the held assets
C25_BuyThenDeleteRestoresCash ==
  tradesOnly
  => \A f \in FormInputs :
       (f.type = "buy" /\ submitAccepts(f, selectedPortfolio(state), state.cash))
       => LET after == buyThenDelete(state, f, clock)
          IN  /\ after.cash = state.cash
              /\ after.tradeHistory = state.tradeHistory
              /\ \A k \in portfolioIds(state) :
                   allocationOf(after, k) = allocationOf(state, k)
              /\ Len(after.netWorthHistory) = Len(state.netWorthHistory) + 2


(***************************************************************************)
(* C26: a snapshot of one account is never installed as the state of, nor  *)
(* pushed to the remote record of, a different account: when account B     *)
(* logs in on a device after account A and has no remote record, B's       *)
(* state and B's remote record are not populated from A's data through     *)
(* the local cache.                                                        *)
(***************************************************************************)
\* handlers only append to netWorthHistory, so a state derived from the
\* snapshot account A loaded still starts with that snapshot's first entry
fromLoadedSnapshot(s) ==
  /\ "netWorthHistory" \in DOMAIN s
  /\ s.netWorthHistory # <<>>
  /\ s.netWorthHistory[1] = LoadedState.netWorthHistory[1]
  /\ s.netWorthHistory[1] # INITIAL_STATE.netWorthHistory[1]

C26_NoSnapshotOfOtherAccount ==
  /\ ~ fromLoadedSnapshot(state)
  /\ remote # <<>> => ~ fromLoadedSnapshot(remote[1])


(***************************************************************************)
(* C27: the remote record and the local cache of an account are only ever  *)
(* overwritten with a state derived from that account's own loaded         *)
(* snapshot: INITIAL_STATE, or any state not yet replaced by the           *)
(* account's load, is never saved over existing remote data, in any        *)
(* interleaving of login, an in-flight or failed loadData, logout          *)
(* followed by a second login, and the save timer.                         *)
(***************************************************************************)
C27_SavesDeriveFromLoadedSnapshot ==
  [][ /\ remote' # remote => (remote' # <<>> /\ fromLoadedSnapshot(remote'[1]))
      /\ local' # local => (local' # <<>> /\ fromLoadedSnapshot(local'[1])) ]_vars

\* the part of it that concerns the remote record
C27_RemoteKeepsLoadedData ==
  [][ remote' # remote => (remote' # <<>> /\ fromLoadedSnapshot(remote'[1])) ]_vars


(***************************************************************************)
(* C28: a mutation accepted by the engine is never silently discarded by   *)
(* a concurrent load: if the user performs a mutating operation while      *)
(* loadData is in flight, the effect of that operation is still present    *)
(* in the in-memory state after every loadData completion.                 *)
(***************************************************************************)
loadCompletes == LoadArrives \/ \E thrown, saveArrives \in BOOLEAN : LoadFails(thrown, saveArrives)

\* the last event was an accepted deposit or withdrawal: it came after the
\* auth event that started every load still in flight
depositedInFlight == loading > 0 /\ lastOp = [op |-> "deposit", accepted |-> TRUE]

Last(seq) == seq[Len(seq)]

C28_LoadKeepsMutation ==
  [][ (depositedInFlight /\ loadCompletes)
      => /\ state'.cash = state.cash
         /\ Last(state.netWorthHistory) \in Range(state'.netWorthHistory) ]_vars

\* a load that throws installs nothing and keeps the mutation
C28_ThrownLoadKeepsMutation ==
  [][ (depositedInFlight /\ \E saveArrives \in BOOLEAN : LoadFails(TRUE, saveArrives))
      => state' = state ]_vars


(***************************************************************************)
(* C29: in every reachable state selectedPortfolioId is null, the          *)
(* all-portfolios id, or the id of a portfolio that is in the tree, also   *)
(* after the deletion of an ancestor of the selected portfolio; and a      *)
(* trade submitted afterwards is never applied to a portfolio that is not  *)
(* in the tree.                                                            *)
(***************************************************************************)
C29_SelectionIsLive ==
  /\ state.selectedPortfolioId \in {NULL, ALL_PORTFOLIOS_ID} \cup portfolioIds(state)
  /\ lastOp.op = "trade" /\ lastOp.accepted
       => Head(state.tradeHistory).portfolioId \in portfolioIds(state)

\* the part of it that concerns trades: an accepted trade is applied to a
\* portfolio of the tree
C29_TradeAppliedToLivePortfolio ==
  [][ \A f \in FormInputs :
        (SubmitTrade(f) /\ lastOp'.accepted)
        => /\ state.selectedPortfolioId \in portfolioIds(state)
           /\ Head(state'.tradeHistory).portfolioId = state.selectedPortfolioId ]_vars


(***************************************************************************)
(* C30: starting from non-negative cash, cash is non-negative in every     *)
(* reachable state, over all sequences of accepted buys and sells,         *)
(* deposits and withdrawals (negative deposits), and trade deletions.      *)
(***************************************************************************)
C30_CashNonNegative == Leq(Num(0), state.cash)

\* an accepted buy never takes cash below zero
C30_BuyKeepsCashNonNegative ==
  [][ \A f \in FormInputs :
        (SubmitTrade(f) /\ lastOp'.accepted /\ f.type = "buy" /\ Leq(Num(0), state.cash))
        => Leq(Num(0), state'.cash) ]_vars

=============================================================================
